---- MODULE Spec2Model ----
(***************************************************************************)
(* The editing-state and history engine of the image/text composer         *)
(* (the ImageEditor React component over a fabric.js canvas).              *)
(*                                                                         *)
(* React semantics used throughout: an event handler reads the state of    *)
(* the render it was created in (its closure) and queues its setState      *)
(* calls; the queue of one state variable is applied in order when the     *)
(* handler returns (a functional updater sees the queued value before it,  *)
(* a plain value replaces it).  One action is one handler together with    *)
(* the commit of its queued updates.  fabric.js objects are mutable and    *)
(* shared by reference: they live in the heap fabricObjects and are named  *)
(* by their object identity.                                               *)
(***************************************************************************)
EXTENDS Integers, Sequences, FiniteSets, TLC

\* ------------------------------------------------------------------ bounds
MaxNow == 2          \* Date.now() ranges over 1..MaxNow where time passes freely
MaxLayers == 3       \* addTextLayer is offered while fewer layers exist
MaxObjects == 3      \* addTextLayer is offered while fewer canvas objects exist
MaxHistory == 4      \* recording handlers are offered while the cursor stays below this
CapSteps == 3        \* handler runs offered from a history filled up to the cap
ReorderSteps == 4    \* handler runs offered from a stack of layers
EditLayers == 2      \* layers of the designs that selections and edits start from
EditSteps == 3       \* handler runs offered where selections and edits are too
SessionLayers == 1   \* layers of the designs of a session with a store
SessionSteps == 5    \* steps offered in a session with a store
ResetSteps == 6      \* steps offered around the resets of a stored design
RestoreSteps == 5    \* steps offered around an undo across a change of size

\* ------------------------------------------------------- program constants
HistoryCap == 20
DefaultWidth == 800
DefaultHeight == 600
DefaultFontSize == 32
SnapThreshold == 10

NoObject == 0        \* layer.fabricObject === undefined
NoLayer == 0         \* selectedTextLayer === null
NoImage == "null"    \* backgroundImage === null
MaxCanvasWidth == 1200
MaxCanvasHeight == 800
LoadRetries == 5
NoFile == "none"     \* no picture: canvas.backgroundImage === undefined
NoPath == 0          \* backgroundImagePath === undefined

\* ----------------------------------------------------------------- helpers
Range(s) == {s[i] : i \in 1..Len(s)}

RECURSIVE SelectSeqBy(_, _)
\* s.filter(l => l.id # id)
SelectSeqBy(s, id) ==
    IF s = <<>> THEN <<>>
    ELSE IF Head(s).id = id THEN SelectSeqBy(Tail(s), id)
         ELSE <<Head(s)>> \o SelectSeqBy(Tail(s), id)

\* Array.prototype.findIndex, 1-based; 0 when no element matches (-1 in the code)
FindIndex(layers, id) ==
    IF \E i \in 1..Len(layers) : layers[i].id = id
    THEN CHOOSE i \in 1..Len(layers) :
            /\ layers[i].id = id
            /\ \A j \in 1..(i - 1) : layers[j].id # id
    ELSE 0

\* splice(i, 1) then splice(j, 0, moved): the element at i moved to position j
MoveTo(s, i, j) ==
    LET without == SubSeq(s, 1, i - 1) \o SubSeq(s, i + 1, Len(s))
    IN SubSeq(without, 1, j - 1) \o <<s[i]>> \o SubSeq(without, j, Len(without))

InsertAt(s, pos, e) == SubSeq(s, 1, pos - 1) \o <<e>> \o SubSeq(s, pos, Len(s))

RemoveElem(s, e) == SelectSeq(s, LAMBDA o : o # e)

\* ------------------------------------------------------------------- state
VARIABLES
    canvas,            \* the `canvas` state is non-null (a fabric.Canvas was published)
    canvasObjects,     \* fabricCanvas.getObjects(): object identities, bottom to top
    activeObject,      \* fabricCanvas.getActiveObject(), NoObject when none
    canvasDims,        \* fabricCanvas.width / height
    fabricObjects,     \* heap of fabric.IText instances, by identity
    textLayers,        \* the `textLayers` state, array order = z-order
    selectedTextLayer, \* the `selectedTextLayer` state
    history,           \* the `history` state: sequence of DesignState
    historyIndex,      \* the `historyIndex` state, 0-based, -1 when empty
    backgroundImage,   \* the `backgroundImage` state
    canvasSize,        \* the `canvasSize` state
    disposed,          \* the canvas the `canvas` state names was disposed of
    canvasImage,       \* fabricCanvas.backgroundImage: the picture shown, NoFile when none
    imageLoads,        \* pending fabric.Image.fromURL promises of loadBackgroundImage
    uploadState,       \* the `uploadState` state: [isUploading]
    uploading,         \* handleImageUpload calls waiting for uploadImageToSupabase
    autosaveTimer,     \* the pending setTimeout(saveToStorage, 2000) with its closure
    saving,            \* saveToStorage calls waiting for uploadImageToSupabase
    localStorage,      \* the item 'imageTextComposerDesign' (a set: empty when absent)
    bucket,            \* the Supabase bucket 'images': path -> picture
    nextPath,          \* the next file name uploadImageToSupabase makes up
    resetting,         \* resetDesign calls waiting for deleteImageFromSupabase
    loadingFromStorage,\* loadFromStorage calls waiting for getImageFromSupabase
    hasLoadedFromStorage, \* hasLoadedFromStorage.current
    supabaseConfigured,\* isSupabaseConfigured(): both environment variables are set
    img,               \* width and height of a picture fabric.Image.fromURL decoded
    newSize,           \* newWidth, newHeight computed for img (a set: empty before)
    request,           \* one call chain of loadBackgroundImage: where it stands
    initEffect,        \* one run of the canvas init effect: attempts, timers, outcome
    now,               \* Date.now()
    steps,             \* the counted handler runs so far (see Counted)
    lastOp,            \* observer: the handler that ran last and its argument
    pre                \* observer: the design before the handler that ran last

vars == <<canvas, canvasObjects, activeObject, canvasDims, fabricObjects,
          textLayers, selectedTextLayer, history, historyIndex,
          backgroundImage, canvasSize, disposed, canvasImage, imageLoads,
          uploadState, uploading, autosaveTimer, saving, localStorage, bucket,
          nextPath, resetting, loadingFromStorage, hasLoadedFromStorage,
          supabaseConfigured, img, newSize, request, initEffect, now, steps, lastOp,
          pre>>

canvasVars == <<canvasObjects, activeObject, canvasDims, fabricObjects>>
historyVars == <<history, historyIndex>>
\* The life of the canvas instance: disposal, background picture, pending loads
canvasLife == <<disposed, canvasImage, imageLoads>>
\* Uploads, autosave, the local store and the remote bucket
storeVars == <<uploadState, uploading, autosaveTimer, saving, localStorage, bucket,
               nextPath, resetting, loadingFromStorage, hasLoadedFromStorage,
               supabaseConfigured>>
designVars == <<textLayers, backgroundImage, canvasSize>>
\* One run of loadBackgroundImage and one run of the canvas init effect, each taken
\* on its own
loaderVars == <<img, newSize, request, initEffect>>

\* The design as the user sees it: DesignState of the current render
Design(layers, bg, size) ==
    [backgroundImage |-> bg, textLayers |-> layers,
     canvasWidth |-> size.width, canvasHeight |-> size.height]

CurrentDesign == Design(textLayers, backgroundImage, canvasSize)

Observed(op, id, alerts) ==
    /\ lastOp' = [op |-> op, id |-> id, prev |-> lastOp.op, alerts |-> alerts]
    /\ pre' = CurrentDesign

\* A step that shows no alert() dialog
Observe(op, id) == Observed(op, id, 0)

\* ------------------------------------------------------------ the heap
\* Identities the snapshots of a history refer to
HistoryRefs(hist) ==
    UNION {{hist[k].textLayers[i].fabricObject : i \in 1..Len(hist[k].textLayers)} :
              k \in 1..Len(hist)}

\* Identities still referenced from the canvas, the layers, a snapshot or the
\* closure of a handleImageUpload call that has not finished
Referenced(objs, active, layers, hist) ==
    (Range(objs) \cup {active}
        \cup {layers[i].fabricObject : i \in 1..Len(layers)}
        \cup HistoryRefs(hist)
        \cup UNION {HistoryRefs(u.history) : u \in uploading}
        \cup UNION {{u.textLayers[i].fabricObject : i \in 1..Len(u.textLayers)} :
                       u \in uploading})
    \ {NoObject}

\* Unreferenced instances are garbage: drop them from the heap
Collect(heap, objs, active, layers, hist) ==
    [o \in (DOMAIN heap) \cap Referenced(objs, active, layers, hist) |-> heap[o]]

\* `new`: the least identity the heap does not hold
FreshObject(heap) == CHOOSE o \in 1..(Cardinality(DOMAIN heap) + 1) : o \notin DOMAIN heap

Alloc(heap, o, obj) == [p \in (DOMAIN heap) \cup {o} |-> IF p = o THEN obj ELSE heap[p]]

EmptyHeap == [o \in {} |-> 0]

\* ------------------------------------------------------------ pictures
\* The PNG files the user picks, by content
Pictures == {"small", "wide"}

\* img.width, img.height of a decoded picture
PictureSize(picture) ==
    IF picture = "small" THEN [width |-> 400, height |-> 300]
    ELSE [width |-> 2400, height |-> 1200]

\* FileReader.readAsDataURL(file): the data URL that encodes the picture
DataUrl(picture) == IF picture = "small" THEN "data:small" ELSE "data:wide"

DataUrls == {DataUrl(picture) : picture \in Pictures}

\* getImagePublicUrl(path): the public URL of a path of the bucket
PublicUrls == <<"public:1", "public:2", "public:3", "public:4", "public:5", "public:6",
                "public:7", "public:8">>

PublicUrl(path) == PublicUrls[path]

PathOf(url) == CHOOSE path \in DOMAIN PublicUrls : PublicUrls[path] = url

\* The picture a URL gives when it is fetched: a data URL decodes to its picture, a
\* public URL gives what the bucket b holds at its path, NoFile when nothing is there
Fetch(url, b) ==
    IF url \in DataUrls THEN CHOOSE picture \in Pictures : DataUrl(picture) = url
    ELSE IF url \in Range(PublicUrls) /\ PathOf(url) \in DOMAIN b THEN b[PathOf(url)]
    ELSE NoFile

RECURSIVE GCD(_, _)
GCD(a, b) == IF b = 0 THEN a ELSE GCD(b, a % b)

\* The number n / d, kept in lowest terms
Ratio(n, d) == [num |-> n \div GCD(n, d), den |-> d \div GCD(n, d)]

\* k * r and k / r for a whole number k and a number r
Times(k, r) == Ratio((k \div GCD(k, r.den)) * r.num, r.den \div GCD(k, r.den))
Over(k, r) == Times(k, [num |-> r.den, den |-> r.num])

\* Every axis cut to its maximum on its own
ScaledSizeClamped(imgWidth, imgHeight) ==
    [width |-> Ratio(IF imgWidth > MaxCanvasWidth THEN MaxCanvasWidth ELSE imgWidth, 1),
     height |-> Ratio(IF imgHeight > MaxCanvasHeight THEN MaxCanvasHeight ELSE imgHeight,
                      1)]

\* newWidth, newHeight of loadBackgroundImage: the picture's own size, or, when it
\* exceeds maxWidth x maxHeight, the size scaled by imgAspect = imgWidth / imgHeight.
\* JavaScript numbers are not rounded here, so the results are fractions.
ScaledSize(imgWidth, imgHeight) ==
    LET imgAspect == Ratio(imgWidth, imgHeight)
    IN IF imgWidth > MaxCanvasWidth \/ imgHeight > MaxCanvasHeight
       THEN IF imgAspect.num * MaxCanvasHeight > MaxCanvasWidth * imgAspect.den
            THEN [width |-> Ratio(MaxCanvasWidth, 1),
                  height |-> Over(MaxCanvasWidth, imgAspect)]
            ELSE [width |-> Times(MaxCanvasHeight, imgAspect),
                  height |-> Ratio(MaxCanvasHeight, 1)]
       ELSE [width |-> Ratio(imgWidth, 1), height |-> Ratio(imgHeight, 1)]

\* The canvas size loadBackgroundImage derives from a picture whose scaled size is
\* whole, as it is for the pictures of the sessions below
ScaledBounds(imgWidth, imgHeight) ==
    LET size == ScaledSize(imgWidth, imgHeight)
    IN [width |-> size.width.num \div size.width.den,
        height |-> size.height.num \div size.height.den]

BoundsOf(picture) == ScaledBounds(PictureSize(picture).width, PictureSize(picture).height)

\* A started loadBackgroundImage(url, fabricCanvas): live while fabricCanvas is the
\* canvas in use
Load(url) == [url |-> url, live |-> TRUE]

\* The pending loads once their canvas was disposed of
Stale(loads) == {[l EXCEPT !.live = FALSE] : l \in loads}

\* The effect "ensure background image is loaded": with a background set and no
\* upload in progress, a canvas without a picture gets loadBackgroundImage
EnsureBackground(bg, upload, usable, picture) ==
    IF bg # NoImage /\ ~upload.isUploading /\ usable /\ picture = NoFile
    THEN {Load(bg)} ELSE {}

\* No call chain of loadBackgroundImage is followed
NoRequest ==
    [phase |-> "idle", url |-> "data", retryCount |-> 0, retries |-> 0,
     fallbacks |-> 0, alerts |-> 0]

\* const maxInitAttempts = 5
MaxInitAttempts == 5

\* The canvas init effect with nothing pending: the timers it set have fired
NoEffect ==
    [phase |-> "idle", initAttempts |-> 1, errors |-> <<>>, fabricCanvas |-> TRUE,
     handlers |-> TRUE, readyTimer |-> FALSE, loading |-> FALSE, alerts |-> 0]

\* No size computation, no load request and no canvas initialization is looked at
\* on its own
NoSizing ==
    /\ img = [width |-> DefaultWidth, height |-> DefaultHeight]
    /\ newSize = {}
    /\ request = NoRequest
    /\ initEffect = NoEffect

\* Nothing is stored, nothing is in flight, Supabase is not configured
Offline ==
    /\ uploadState = [isUploading |-> FALSE]
    /\ uploading = {}
    /\ autosaveTimer = {}
    /\ saving = {}
    /\ localStorage = {}
    /\ bucket = [path \in {} |-> NoFile]
    /\ nextPath = 1
    /\ resetting = {}
    /\ loadingFromStorage = {}
    /\ hasLoadedFromStorage = FALSE
    /\ supabaseConfigured = FALSE

\* ------------------------------------------------------------ layer model
\* const newLayer: TextLayer = {...} in addTextLayer
NewLayer(id, width, height) ==
    [id |-> id, text |-> "New Text", fontFamily |-> "Arial",
     fontSize |-> DefaultFontSize, fontWeight |-> "normal", color |-> "#000000",
     opacity |-> 1, alignment |-> "left",
     x |-> width \div 2, y |-> height \div 2,
     rotation |-> 0, visible |-> TRUE, fabricObject |-> NoObject]

\* new fabric.IText(layer.text, {...}); text.layerId = layer.id
NewIText(layer) ==
    [layerId |-> layer.id, text |-> layer.text, left |-> layer.x, top |-> layer.y,
     fontFamily |-> layer.fontFamily, fontSize |-> layer.fontSize,
     fontWeight |-> layer.fontWeight, fill |-> layer.color,
     opacity |-> layer.opacity, textAlign |-> layer.alignment,
     angle |-> layer.rotation, visible |-> layer.visible]

\* { ...layer, ...updates }
Merge(layer, updates) ==
    [k \in DOMAIN layer |-> IF k \in DOMAIN updates THEN updates[k] ELSE layer[k]]

\* layer.fabricObject.set({text, fontFamily, ..., visible}) in updateTextLayer
SetFromLayer(obj, layer) ==
    [obj EXCEPT !.text = layer.text, !.fontFamily = layer.fontFamily,
                !.fontSize = layer.fontSize, !.fontWeight = layer.fontWeight,
                !.fill = layer.color, !.opacity = layer.opacity,
                !.textAlign = layer.alignment, !.left = layer.x, !.top = layer.y,
                !.angle = layer.rotation, !.visible = layer.visible]

\* prev.map(l => l.id === id ? { ...l, fabricObject } : l)
AttachFabricObject(layers, id, o) ==
    [i \in 1..Len(layers) |->
        IF layers[i].id = id THEN [layers[i] EXCEPT !.fabricObject = o] ELSE layers[i]]

\* The layer without its canvas back-reference: the attributes a snapshot is about
Attributes(layer) == [layer EXCEPT !.fabricObject = NoObject]

AttributesOf(layers) == [i \in 1..Len(layers) |-> Attributes(layers[i])]

Ids(layers) == [i \in 1..Len(layers) |-> layers[i].id]

\* The layerId tags of the canvas objects, bottom to top
CanvasTags == [i \in 1..Len(canvasObjects) |-> fabricObjects[canvasObjects[i]].layerId]

\* --------------------------------------------------------------- history
\* addToHistory without the cap: the oldest snapshot is never dropped
AddToHistoryUncapped(bg, layers, size, hist, idx) ==
    [history |-> Append(SubSeq(hist, 1, idx + 1), Design(layers, bg, size)),
     historyIndex |-> idx + 1]

\* addToHistory without the slice: the snapshots after the cursor are kept
AddToHistoryKeepsTail(bg, layers, size, hist, idx) ==
    LET newHistory == Append(hist, Design(layers, bg, size))
    IN IF Len(newHistory) > HistoryCap
       THEN [history |-> Tail(newHistory), historyIndex |-> idx]
       ELSE [history |-> newHistory, historyIndex |-> idx + 1]

\* addToHistory, on the values its closure holds
AddToHistory(bg, layers, size, hist, idx) ==
    LET currentState == Design(layers, bg, size)
        newHistory == Append(SubSeq(hist, 1, idx + 1), currentState)
    IN IF Len(newHistory) > HistoryCap
       THEN [history |-> Tail(newHistory), historyIndex |-> idx]
       ELSE [history |-> newHistory, historyIndex |-> idx + 1]

\* ------------------------------------------------------------------- init
\* The component's first render: nothing drawn, nothing stored, nothing in flight
Startup ==
    /\ canvas = FALSE
    /\ canvasObjects = <<>>
    /\ activeObject = NoObject
    /\ canvasDims = [width |-> DefaultWidth, height |-> DefaultHeight]
    /\ fabricObjects = EmptyHeap
    /\ textLayers = <<>>
    /\ selectedTextLayer = NoLayer
    /\ history = <<>>
    /\ historyIndex = -1
    /\ backgroundImage = NoImage
    /\ canvasSize = [width |-> DefaultWidth, height |-> DefaultHeight]
    /\ disposed = FALSE
    /\ canvasImage = NoFile
    /\ imageLoads = {}
    /\ Offline
    /\ now = 1
    /\ steps = 0
    /\ lastOp = [op |-> "init", id |-> NoLayer, prev |-> "init", alerts |-> 0]
    /\ pre = Design(<<>>, NoImage, [width |-> DefaultWidth, height |-> DefaultHeight])

Init == Startup /\ NoSizing

\* The canvas init effect's timer: new fabric.Canvas(...) in the size of the render
\* that set the timer, setCanvas(fabricCanvas); it runs at startup and again after
\* the effect's cleanup disposed of the canvas because canvasSize changed.  The new
\* canvas is empty; the "ensure background" effect then loads the background.
InitializeCanvas ==
    /\ ~canvas \/ disposed
    /\ canvas' = TRUE
    /\ disposed' = FALSE
    /\ canvasObjects' = <<>>
    /\ activeObject' = NoObject
    /\ canvasDims' = canvasSize
    /\ canvasImage' = NoFile
    /\ fabricObjects' = Collect(fabricObjects, <<>>, NoObject, textLayers, history)
    /\ imageLoads' = imageLoads \cup EnsureBackground(backgroundImage, uploadState, TRUE,
                                                   NoFile)
    /\ Observe("initializeCanvas", NoLayer)
    /\ UNCHANGED <<designVars, historyVars, selectedTextLayer, now>>

\* The ids a design, a snapshot or a canvas object carries
IdsInUse ==
    Range(Ids(textLayers))
        \cup UNION {Range(Ids(history[k].textLayers)) : k \in 1..Len(history)}
        \cup {fabricObjects[o].layerId : o \in DOMAIN fabricObjects}

\* Time passes: Date.now() advances.  Only addTextLayer reads the clock, and only
\* to make an id, so a tick matters only once the current value was handed out.
Tick ==
    /\ now \in IdsInUse
    /\ now' = now + 1
    /\ UNCHANGED <<canvas, canvasLife, canvasVars, designVars, historyVars, selectedTextLayer,
                   lastOp, pre>>

\* A plain setState(value) replaces whatever the handler queued before it
Replace(queued, value) == value

\* A handler that returns before it changes anything
NoOp(op, id) ==
    /\ Observe(op, id)
    /\ UNCHANGED <<canvas, canvasLife, canvasVars, designVars, historyVars, selectedTextLayer,
                   now>>

\* addTextLayer that puts the new layer first in the array (the bottom of the stack)
AddTextLayerAtBottom ==
    IF ~canvas THEN NoOp("addTextLayer", NoLayer)
    ELSE /\ LET newLayer == NewLayer(now, canvasDims.width, canvasDims.height)
                text == FreshObject(fabricObjects)
                committed == <<newLayer>> \o textLayers
                h == AddToHistory(backgroundImage, textLayers, canvasSize, history,
                                  historyIndex)
                objs == Append(canvasObjects, text)
            IN /\ canvasObjects' = objs
               /\ textLayers' = committed
               /\ selectedTextLayer' = newLayer.id
               /\ history' = h.history
               /\ historyIndex' = h.historyIndex
               /\ fabricObjects' = Collect(Alloc(fabricObjects, text, NewIText(newLayer)),
                                           objs, activeObject, committed, h.history)
         /\ Observe("addTextLayer", now)
         /\ UNCHANGED <<canvas, canvasLife, activeObject, canvasDims, backgroundImage,
                        canvasSize, now>>

\* addTextLayer: without a canvas the call returns at once.  Otherwise the layer is
\* put on the canvas (addTextToCanvas queues an updater that attaches the object to
\* the layer with this id in the previous array), then
\* setTextLayers([...textLayers, newLayer]) replaces the queued result, so the new
\* layer is stored without its fabricObject; addToHistory records the closure's state.
AddTextLayer ==
    IF ~canvas THEN NoOp("addTextLayer", NoLayer)
    ELSE /\ LET newLayer == NewLayer(now, canvasDims.width, canvasDims.height)
                text == FreshObject(fabricObjects)
                committed == Replace(AttachFabricObject(textLayers, newLayer.id, text),
                                     Append(textLayers, newLayer))
                h == AddToHistory(backgroundImage, textLayers, canvasSize, history,
                                  historyIndex)
                objs == Append(canvasObjects, text)
            IN /\ canvasObjects' = objs
               /\ textLayers' = committed
               /\ selectedTextLayer' = newLayer.id
               /\ history' = h.history
               /\ historyIndex' = h.historyIndex
               /\ fabricObjects' = Collect(Alloc(fabricObjects, text, NewIText(newLayer)),
                                           objs, activeObject, committed, h.history)
         /\ Observe("addTextLayer", now)
         /\ UNCHANGED <<canvas, canvasLife, activeObject, canvasDims, backgroundImage,
                        canvasSize, now>>

\* deleteTextLayer(layerId): the canvas object is removed only through the layer's
\* stored fabricObject; removing the active object fires selection:cleared.
DeleteTextLayer(layerId) ==
    /\ LET i == FindIndex(textLayers, layerId)
           fo == IF i = 0 THEN NoObject ELSE textLayers[i].fabricObject
           objs == IF fo # NoObject THEN RemoveElem(canvasObjects, fo) ELSE canvasObjects
           active == IF fo # NoObject /\ fo = activeObject /\ fo \in Range(canvasObjects)
                     THEN NoObject ELSE activeObject
           committed == SelectSeqBy(textLayers, layerId)
           h == AddToHistory(backgroundImage, textLayers, canvasSize, history, historyIndex)
       IN /\ canvasObjects' = objs
          /\ activeObject' = active
          /\ textLayers' = committed
          /\ selectedTextLayer' = NoLayer
          /\ history' = h.history
          /\ historyIndex' = h.historyIndex
          /\ fabricObjects' = Collect(fabricObjects, objs, active, committed, h.history)
    /\ Observe("deleteTextLayer", layerId)
    /\ UNCHANGED <<canvas, canvasLife, canvasDims, backgroundImage, canvasSize, now>>

\* canvas.getObjects().find(obj => obj.layerId === layerId)
FindByLayerId(objs, heap, layerId) ==
    IF \E i \in 1..Len(objs) : heap[objs[i]].layerId = layerId
    THEN objs[CHOOSE i \in 1..Len(objs) :
                /\ heap[objs[i]].layerId = layerId
                /\ \A j \in 1..(i - 1) : heap[objs[j]].layerId # layerId]
    ELSE NoObject

IndexOf(s, e) == IF e \in Range(s) THEN CHOOSE i \in 1..Len(s) : s[i] = e ELSE 0

Swap(s, i, j) == [s EXCEPT ![i] = s[j], ![j] = s[i]]

\* An object that is not in the collection handed to a stacking primitive: the
\* collection is left alone or the object is spliced in at some position
Detached(objs, o) == {objs} \cup {InsertAt(objs, p, o) : p \in 1..(Len(objs) + 1)}

\* canvas.bringObjectForward(o): the stacks the call can leave
BringObjectForward(objs, o) ==
    LET idx == IndexOf(objs, o)
    IN IF idx = 0 THEN Detached(objs, o)
       ELSE IF idx = Len(objs) THEN {objs}
       ELSE {Swap(objs, idx, idx + 1)}

\* canvas.sendObjectBackwards(o): the stacks the call can leave
SendObjectBackwards(objs, o) ==
    LET idx == IndexOf(objs, o)
    IN IF idx = 0 THEN Detached(objs, o)
       ELSE IF idx = 1 THEN {objs}
       ELSE {Swap(objs, idx, idx - 1)}

\* The shared body of moveLayerUp / moveLayerDown once the index checks passed:
\* the array is reordered first; the canvas object is taken from the layer or
\* re-resolved by its layerId tag (and then attached by a queued updater); only
\* when an object was found is the canvas restacked and a snapshot recorded.
Reorder(op, layerId, currentIndex, newIndex) ==
    LET newTextLayers == MoveTo(textLayers, currentIndex, newIndex)
        stored == textLayers[currentIndex].fabricObject
        fabricObject == IF stored # NoObject THEN stored
                        ELSE FindByLayerId(canvasObjects, fabricObjects, layerId)
        committed == IF stored = NoObject /\ fabricObject # NoObject
                     THEN AttachFabricObject(newTextLayers, layerId, fabricObject)
                     ELSE newTextLayers
        h == AddToHistory(backgroundImage, textLayers, canvasSize, history, historyIndex)
        stacks == IF op = "moveLayerUp"
                  THEN BringObjectForward(canvasObjects, fabricObject)
                  ELSE SendObjectBackwards(canvasObjects, fabricObject)
    IN /\ textLayers' = committed
       /\ IF fabricObject # NoObject
          THEN /\ \E objs \in stacks :
                    /\ canvasObjects' = objs
                    /\ fabricObjects' = Collect(fabricObjects, objs, activeObject,
                                                committed, h.history)
               /\ history' = h.history
               /\ historyIndex' = h.historyIndex
          ELSE /\ UNCHANGED <<canvasObjects, history, historyIndex>>
               /\ fabricObjects' = Collect(fabricObjects, canvasObjects, activeObject,
                                           committed, history)
       /\ Observe(op, layerId)
       /\ UNCHANGED <<canvas, canvasLife, activeObject, canvasDims, selectedTextLayer,
                      backgroundImage, canvasSize, now>>

\* moveLayerUp that records a snapshot before it finds the layer already on top
MoveLayerUpUnchecked(layerId) ==
    LET currentIndex == FindIndex(textLayers, layerId)
        h == AddToHistory(backgroundImage, textLayers, canvasSize, history, historyIndex)
    IN IF currentIndex = 0 THEN NoOp("moveLayerUp", layerId)
       ELSE IF currentIndex = Len(textLayers)
       THEN /\ history' = h.history
            /\ historyIndex' = h.historyIndex
            /\ Observe("moveLayerUp", layerId)
            /\ UNCHANGED <<canvas, canvasLife, canvasVars, designVars, selectedTextLayer, now>>
       ELSE IF ~canvas THEN NoOp("moveLayerUp", layerId)
       ELSE Reorder("moveLayerUp", layerId, currentIndex, currentIndex + 1)

\* moveLayerDown that sends the layer to the bottom of the array
MoveLayerDownToBottom(layerId) ==
    LET currentIndex == FindIndex(textLayers, layerId)
    IN IF currentIndex = 0 THEN NoOp("moveLayerDown", layerId)
       ELSE IF currentIndex = 1 THEN NoOp("moveLayerDown", layerId)
       ELSE IF ~canvas THEN NoOp("moveLayerDown", layerId)
       ELSE Reorder("moveLayerDown", layerId, currentIndex, 1)

MoveLayerUp(layerId) ==
    LET currentIndex == FindIndex(textLayers, layerId)
    IN IF currentIndex = 0 THEN NoOp("moveLayerUp", layerId)
       ELSE IF currentIndex = Len(textLayers) THEN NoOp("moveLayerUp", layerId)
       ELSE IF ~canvas THEN NoOp("moveLayerUp", layerId)
       ELSE Reorder("moveLayerUp", layerId, currentIndex, currentIndex + 1)

MoveLayerDown(layerId) ==
    LET currentIndex == FindIndex(textLayers, layerId)
    IN IF currentIndex = 0 THEN NoOp("moveLayerDown", layerId)
       ELSE IF currentIndex = 1 THEN NoOp("moveLayerDown", layerId)
       ELSE IF ~canvas THEN NoOp("moveLayerDown", layerId)
       ELSE Reorder("moveLayerDown", layerId, currentIndex, currentIndex - 1)

RECURSIVE AddAllToCanvas(_, _, _)
\* state.textLayers.forEach(layer => addTextToCanvas(layer, canvas))
AddAllToCanvas(layers, heap, objs) ==
    IF layers = <<>> THEN [heap |-> heap, objs |-> objs]
    ELSE LET text == FreshObject(heap)
         IN AddAllToCanvas(Tail(layers), Alloc(heap, text, NewIText(Head(layers))),
                           Append(objs, text))

\* restoreState(state) on a usable canvas: canvas.clear() (which discards the
\* active object and so fires selection:cleared, and drops the background picture),
\* the three setState calls, setDimensions, loadBackgroundImage for a snapshot with
\* a background, one new canvas object per snapshot layer;
\* setTextLayers(state.textLayers) replaces the attach updaters queued by
\* addTextToCanvas.  On a disposed canvas only the three setState calls are made.
\* When the restored size differs from canvasSize the next render disposes of the
\* canvas with everything just put on it.
RestoreState(state) ==
    LET size == [width |-> state.canvasWidth, height |-> state.canvasHeight]
        resized == size # canvasSize
    IN IF ~canvas
       THEN UNCHANGED <<canvasVars, canvasLife, designVars, selectedTextLayer>>
       ELSE IF disposed
       THEN /\ backgroundImage' = state.backgroundImage
            /\ canvasSize' = size
            /\ textLayers' = state.textLayers
            /\ fabricObjects' = Collect(fabricObjects, canvasObjects, activeObject,
                                        state.textLayers, history)
            /\ UNCHANGED <<canvasObjects, activeObject, canvasDims, canvasLife,
                           selectedTextLayer>>
       ELSE LET kept == Collect(fabricObjects, <<>>, NoObject, <<>>, history)
                built == AddAllToCanvas(state.textLayers, kept, <<>>)
                started == IF state.backgroundImage # NoImage
                           THEN {Load(state.backgroundImage)} ELSE {}
            IN /\ canvasObjects' = IF resized THEN <<>> ELSE built.objs
               /\ fabricObjects' = IF resized THEN kept ELSE built.heap
               /\ activeObject' = NoObject
               /\ selectedTextLayer' = IF activeObject # NoObject THEN NoLayer
                                       ELSE selectedTextLayer
               /\ backgroundImage' = state.backgroundImage
               /\ canvasSize' = size
               /\ canvasDims' = size
               /\ textLayers' = state.textLayers
               /\ disposed' = resized
               /\ canvasImage' = NoFile
               /\ imageLoads' = IF resized THEN Stale(imageLoads \cup started)
                                ELSE imageLoads \cup started

\* undo that restores the previous snapshot and leaves the cursor where it was
UndoKeepsCursor ==
    /\ IF historyIndex > 0
       THEN /\ RestoreState(history[(historyIndex - 1) + 1])
            /\ historyIndex' = historyIndex
       ELSE UNCHANGED <<canvasVars, canvasLife, designVars, selectedTextLayer,
                       historyIndex>>
    /\ Observe("undo", NoLayer)
    /\ UNCHANGED <<canvas, history, now>>

Undo ==
    /\ IF historyIndex > 0
       THEN /\ RestoreState(history[(historyIndex - 1) + 1])
            /\ historyIndex' = historyIndex - 1
       ELSE UNCHANGED <<canvasVars, canvasLife, designVars, selectedTextLayer,
                       historyIndex>>
    /\ Observe("undo", NoLayer)
    /\ UNCHANGED <<canvas, history, now>>

Redo ==
    /\ IF historyIndex < Len(history) - 1
       THEN /\ RestoreState(history[(historyIndex + 1) + 1])
            /\ historyIndex' = historyIndex + 1
       ELSE UNCHANGED <<canvasVars, canvasLife, designVars, selectedTextLayer,
                       historyIndex>>
    /\ Observe("redo", NoLayer)
    /\ UNCHANGED <<canvas, history, now>>

\* The render after canvasSize changed to size disposes of the canvas in use
Disposes(size) == canvas /\ ~disposed /\ size # canvasSize

\* The setState calls and canvas calls of resetDesign; usable: the canvas the call
\* holds is the canvas in use and passes the checks, and so is cleared and resized.
\* A canvas size that changes makes the next render dispose of the canvas in use.
ResetState(usable) ==
    LET size == [width |-> DefaultWidth, height |-> DefaultHeight]
        gone == Disposes(size)
        cleared == usable \/ gone
    IN /\ backgroundImage' = NoImage
       /\ textLayers' = <<>>
       /\ selectedTextLayer' = NoLayer
       /\ history' = <<>>
       /\ historyIndex' = -1
       /\ canvasSize' = size
       /\ canvasObjects' = IF cleared THEN <<>> ELSE canvasObjects
       /\ activeObject' = IF cleared THEN NoObject ELSE activeObject
       /\ canvasImage' = IF cleared THEN NoFile ELSE canvasImage
       /\ canvasDims' = IF usable THEN size ELSE canvasDims
       /\ fabricObjects' = Collect(fabricObjects, canvasObjects', activeObject',
                                   <<>>, <<>>)
       /\ disposed' = (disposed \/ gone)
       /\ imageLoads' = IF gone THEN Stale(imageLoads) ELSE imageLoads

\* resetDesign once nothing is left to delete remotely
ResetDesign ==
    /\ ResetState(canvas /\ ~disposed)
    /\ Observe("resetDesign", NoLayer)
    /\ UNCHANGED <<canvas, now>>

\* ------------------------------------------------------------- selection
\* A click on a visible canvas object: fabric makes it the active object and fires
\* selection:created when nothing was active (selection:updated, which has no
\* handler, otherwise)
SelectOnCanvas(o) ==
    /\ canvas
    /\ o \in Range(canvasObjects)
    /\ fabricObjects[o].visible
    /\ o # activeObject
    /\ activeObject' = o
    /\ selectedTextLayer' = IF activeObject = NoObject THEN fabricObjects[o].layerId
                            ELSE selectedTextLayer
    /\ Observe("selectOnCanvas", fabricObjects[o].layerId)
    /\ UNCHANGED <<canvas, canvasLife, canvasObjects, canvasDims, fabricObjects, designVars,
                   historyVars, now>>

\* A click on the empty canvas: selection:cleared
ClearSelection ==
    /\ canvas
    /\ activeObject # NoObject
    /\ activeObject' = NoObject
    /\ selectedTextLayer' = NoLayer
    /\ Observe("clearSelection", NoLayer)
    /\ fabricObjects' = Collect(fabricObjects, canvasObjects, NoObject, textLayers, history)
    /\ UNCHANGED <<canvas, canvasLife, canvasObjects, canvasDims, designVars, historyVars, now>>

\* A click on a row of the layer panel: setSelectedTextLayer(layer.id)
SelectLayer(layerId) ==
    /\ selectedTextLayer' = layerId
    /\ Observe("selectLayer", layerId)
    /\ UNCHANGED <<canvas, canvasLife, canvasVars, designVars, historyVars, now>>

\* ----------------------------------------------------------------- edits
RECURSIVE MapUpdate(_, _, _, _, _)
\* layers.map(layer => ...) of updateTextLayer from index i on: every layer with the
\* id is merged, and its stored fabricObject (if any) is set from the merged layer
MapUpdate(layers, heap, layerId, updates, i) ==
    IF i > Len(layers) THEN [layers |-> layers, heap |-> heap]
    ELSE IF layers[i].id = layerId
         THEN LET updatedLayer == Merge(layers[i], updates)
                  fo == layers[i].fabricObject
                  set == IF fo # NoObject
                         THEN [heap EXCEPT ![fo] = SetFromLayer(heap[fo], updatedLayer)]
                         ELSE heap
              IN MapUpdate([layers EXCEPT ![i] = updatedLayer], set, layerId, updates, i + 1)
         ELSE MapUpdate(layers, heap, layerId, updates, i + 1)

\* updateTextLayer that merges the updates into the layer objects themselves, so
\* that every snapshot holding the layer sees them too
UpdateTextLayerInPlace(layerId, updates) ==
    LET r == MapUpdate(textLayers, fabricObjects, layerId, updates, 1)
    IN /\ textLayers' = r.layers
       /\ fabricObjects' = r.heap
       /\ history' = [k \in 1..Len(history) |->
                        [history[k] EXCEPT !.textLayers =
                            [i \in 1..Len(@) |->
                                IF @[i] \in Range(textLayers) /\ @[i].id = layerId
                                THEN Merge(@[i], updates) ELSE @[i]]]]
       /\ UNCHANGED <<canvas, canvasLife, canvasObjects, activeObject, canvasDims,
                      selectedTextLayer,
                      historyIndex, backgroundImage, canvasSize, now>>

\* updateTextLayer that stores the updates over a layer of default attributes
UpdateTextLayerOverDefaults(layerId, updates) ==
    /\ textLayers' = [i \in 1..Len(textLayers) |->
                        IF textLayers[i].id = layerId
                        THEN [Merge(NewLayer(layerId, canvasDims.width, canvasDims.height),
                                    updates)
                                EXCEPT !.fabricObject = textLayers[i].fabricObject]
                        ELSE textLayers[i]]
    /\ fabricObjects' = MapUpdate(textLayers, fabricObjects, layerId, updates, 1).heap
    /\ UNCHANGED <<canvas, canvasLife, canvasObjects, activeObject, canvasDims,
                      selectedTextLayer,
                   historyVars, backgroundImage, canvasSize, now>>

\* updateTextLayer(layerId, updates)
UpdateTextLayer(layerId, updates) ==
    LET r == MapUpdate(textLayers, fabricObjects, layerId, updates, 1)
    IN /\ textLayers' = r.layers
       /\ fabricObjects' = r.heap
       /\ UNCHANGED <<canvas, canvasLife, canvasObjects, activeObject, canvasDims,
                      selectedTextLayer,
                      historyVars, backgroundImage, canvasSize, now>>

\* The values the property panel sends
PanelUpdates == {[text |-> "Hi"], [fontSize |-> 48], [alignment |-> "center"]}

\* A property-panel control: updateTextLayer(selectedLayer.id, {...})
PanelEdit(updates) ==
    /\ FindIndex(textLayers, selectedTextLayer) # 0
    /\ UpdateTextLayer(selectedTextLayer, updates)
    /\ Observe("updateTextLayer", selectedTextLayer)

\* updateTextLayer called with an id that no layer of the array carries (an id the
\* editor handed out earlier): the map finds nothing to merge
UpdateMissingLayer(layerId, updates) ==
    /\ FindIndex(textLayers, layerId) = 0
    /\ UpdateTextLayer(layerId, updates)
    /\ Observe("updateTextLayer", layerId)

\* toggleLayerVisibility(layerId)
ToggleLayerVisibility(layerId) ==
    LET i == FindIndex(textLayers, layerId)
    IN /\ i # 0
       /\ UpdateTextLayer(layerId, [visible |-> ~textLayers[i].visible])
       /\ Observe("toggleLayerVisibility", layerId)

\* prev.map(l => l.id === layer.id ? { ...l, ...fields } : l) of the gesture handlers
MapMerge(layers, layerId, fields) ==
    [i \in 1..Len(layers) |->
        IF layers[i].id = layerId THEN Merge(layers[i], fields) ELSE layers[i]]

\* A gesture on the active canvas object: fabric changes the object, then the
\* handler registered by addTextToCanvas copies the value into the layers with its id
Gesture(op, obj, fields) ==
    /\ textLayers' = MapMerge(textLayers, obj.layerId, fields)
    /\ fabricObjects' = [fabricObjects EXCEPT ![activeObject] = obj]
    /\ Observe(op, obj.layerId)
    /\ UNCHANGED <<canvas, canvasLife, canvasObjects, activeObject, canvasDims,
                      selectedTextLayer,
                   historyVars, backgroundImage, canvasSize, now>>

\* text.on('changed', handleTextChange)
TextChanged(t) ==
    /\ activeObject \in Range(canvasObjects)
    /\ Gesture("textChanged", [fabricObjects[activeObject] EXCEPT !.text = t],
               [text |-> t])

Abs(n) == IF n < 0 THEN -n ELSE n

\* The object:moving handler of the canvas: snap to the centre
SnapToCenter(v, center) == IF Abs(v - center) < SnapThreshold THEN center ELSE v

\* A drag tick: object:moving snaps, then text.on('moving', handleTextMove)
ObjectMoving(left, top) ==
    /\ activeObject \in Range(canvasObjects)
    /\ LET snapped == [fabricObjects[activeObject] EXCEPT
                          !.left = SnapToCenter(left, canvasDims.width \div 2),
                          !.top = SnapToCenter(top, canvasDims.height \div 2)]
       IN Gesture("moving", snapped, [x |-> snapped.left, y |-> snapped.top])

\* text.on('rotating', handleTextRotate)
ObjectRotating(angle) ==
    /\ activeObject \in Range(canvasObjects)
    /\ Gesture("rotating", [fabricObjects[activeObject] EXCEPT !.angle = angle],
               [rotation |-> angle])

\* Arrow-key nudging in handleKeyPress: dx, dy is the key's unit step
ArrowKey(dx, dy) ==
    /\ selectedTextLayer # NoLayer
    /\ canvas
    /\ LET i == FindIndex(textLayers, selectedTextLayer)
       IN /\ i # 0
          /\ textLayers[i].fabricObject # NoObject
          /\ LET fo == textLayers[i].fabricObject
                 moved == [fabricObjects[fo] EXCEPT !.left = @ + dx, !.top = @ + dy]
                 r == MapUpdate(textLayers, [fabricObjects EXCEPT ![fo] = moved],
                                selectedTextLayer, [x |-> moved.left, y |-> moved.top], 1)
             IN /\ textLayers' = r.layers
                /\ fabricObjects' = r.heap
    /\ Observe("arrowKey", selectedTextLayer)
    /\ UNCHANGED <<canvas, canvasLife, canvasObjects, activeObject, canvasDims,
                      selectedTextLayer,
                   historyVars, backgroundImage, canvasSize, now>>

\* The positions a drag is released at, the angles of a rotation, the typed texts
DragLefts == {405, 420}
DragTops == {295}
Angles == {90}
Texts == {"Hi"}
ArrowKeys == {<<0, -1>>, <<0, 1>>, <<-1, 0>>, <<1, 0>>}

\* ------------------------------------------------- upload, autosave, storage
The(S) == CHOOSE x \in S : TRUE

Put(b, path, picture) ==
    [p \in (DOMAIN b) \cup {path} |-> IF p = path THEN picture ELSE b[p]]

Remove(b, path) == [p \in (DOMAIN b) \ {path} |-> b[p]]

\* The unfinished calls whose closure holds the canvas, once that canvas is gone
Unbound(closures, gone) ==
    IF gone THEN {[c EXCEPT !.canvasLive = FALSE] : c \in closures} ELSE closures

\* A fabricObject that went through JSON: a plain object, not a canvas object
PlainObject == -1

\* JSON.stringify / JSON.parse of the layers: the twelve attributes come back as
\* they were, an undefined fabricObject is dropped, a stored one comes back as a
\* plain object
Serialize(layers) ==
    [i \in 1..Len(layers) |->
        [layers[i] EXCEPT !.fabricObject = IF @ = NoObject THEN NoObject ELSE PlainObject]]

\* The values the autosave effect's saveToStorage closes over
SaveClosure(layers, bg, size) ==
    [textLayers |-> layers, backgroundImage |-> bg, canvasSize |-> size]

\* The effect's cleanup and body: clearTimeout(timer), setTimeout(saveToStorage, 2000)
Debounce(timers, closure) == {closure}

\* The handlers that hand a fresh object to a setter of one of the effect's
\* dependencies whenever they run
Setters == {"deleteTextLayer", "updateTextLayer", "toggleLayerVisibility",
            "textChanged", "moving", "rotating", "arrowKey", "resetDesign",
            "initializeCanvas", "uploadImage", "uploadFinished", "imageLoaded",
            "loadFromStorage", "loadedFromStorage", "reload", "readFailed"}

\* The autosave effect of the render that follows a step: when one of its
\* dependencies changed, the old timer is cleared; no timer is set without a canvas
\* or while an upload is in progress
AutosaveEffect ==
    autosaveTimer' =
        IF \/ lastOp'.op \in Setters
           \/ <<backgroundImage, textLayers, canvasSize, canvas, uploadState>>'
                 # <<backgroundImage, textLayers, canvasSize, canvas, uploadState>>
        THEN IF canvas' /\ ~uploadState'.isUploading
             THEN Debounce(autosaveTimer, SaveClosure(textLayers', backgroundImage',
                                                      canvasSize'))
             ELSE {}
        ELSE autosaveTimer

\* A number for one more unfinished call, to tell it from those still waiting
NextCall(calls) ==
    IF calls = {} THEN 1
    ELSE 1 + (CHOOSE n \in {c.call : c \in calls} : \A c \in calls : c.call <= n)

\* const designState = {...} at the start of saveToStorage
DesignRecord(c) ==
    [backgroundImage |-> NoImage, backgroundImagePath |-> NoPath,
     textLayers |-> Serialize(c.textLayers),
     canvasWidth |-> c.canvasSize.width, canvasHeight |-> c.canvasSize.height]

\* The data URLs too long for what the browser lets the local store hold
Oversized == {DataUrl("wide")}

\* JSON.stringify(designState) is within the quota of the local store
Fits(record) == record.backgroundImage \notin Oversized

\* localStorage.setItem('imageTextComposerDesign', ...) inside saveToStorage's try:
\* beyond the quota it throws, the catch logs, and the store keeps what it had
SetItem(store, record) == IF Fits(record) THEN {record} ELSE store

\* A stored item JSON.parse throws on; its fields stand for nothing
Corrupt ==
    [backgroundImage |-> "{", backgroundImagePath |-> NoPath, textLayers |-> <<>>,
     canvasWidth |-> 0, canvasHeight |-> 0]

\* JSON.parse(saved) returns: nothing is stored (the callers test "if (saved)"
\* first) or the stored item is the text of a record
Parses(store) == Corrupt \notin store

\* prevState.backgroundImagePath of the stored item, undefined when there is no item
\* or JSON.parse throws
ExistingPath ==
    IF localStorage = {} \/ ~Parses(localStorage) THEN NoPath
    ELSE The(localStorage).backgroundImagePath

\* The autosave timer fires: saveToStorage runs on its closure.  Without a
\* background, without Supabase, or with a path already stored, the item is written
\* at once; otherwise the call waits for uploadImageToSupabase.  Without Supabase
\* the background goes into the item as it is, whatever its length.
AutosaveFires ==
    /\ autosaveTimer # {}
    /\ LET c == The(autosaveTimer)
           designState == DesignRecord(c)
       IN IF c.backgroundImage = NoImage
          THEN /\ localStorage' = SetItem(localStorage, designState)
               /\ UNCHANGED saving
               /\ Observe("autosave", NoLayer)
          ELSE IF ~supabaseConfigured
          THEN /\ localStorage' = SetItem(localStorage,
                                          [designState EXCEPT
                                              !.backgroundImage = c.backgroundImage])
               /\ UNCHANGED saving
               /\ Observe(IF c.backgroundImage \in Oversized THEN "autosaveFailed"
                          ELSE "autosave", NoLayer)
          ELSE IF ExistingPath # NoPath
          THEN /\ localStorage' = SetItem(localStorage,
                                          [designState EXCEPT
                                              !.backgroundImagePath = ExistingPath,
                                              !.backgroundImage = PublicUrl(ExistingPath)])
               /\ UNCHANGED saving
               /\ Observe("autosave", NoLayer)
          ELSE /\ saving' = saving \cup {[designState |-> designState,
                                         image |-> c.backgroundImage,
                                         savedParses |-> Parses(localStorage),
                                         call |-> NextCall(saving)]}
               /\ UNCHANGED localStorage
               /\ Observe("autosave", NoLayer)
    /\ autosaveTimer' = autosaveTimer \ {The(autosaveTimer)}
    /\ UNCHANGED <<canvas, canvasVars, canvasLife, designVars, historyVars,
                   selectedTextLayer, uploadState, uploading, bucket, nextPath,
                   resetting, loadingFromStorage, hasLoadedFromStorage,
                   supabaseConfigured, now>>

\* uploadImageToSupabase of a waiting saveToStorage settles: on success the picture
\* is in the bucket under a new name and the item is written with that path and its
\* public URL; on failure nothing is written.  The "delete any previous image" step
\* parses the item the call read at its start once more: when that throws, the
\* call ends in its catch after the upload and writes nothing.
SaveFinishes(s, ok) ==
    /\ s \in saving
    /\ ok => Fetch(s.image, bucket) # NoFile
    /\ IF ok
       THEN /\ bucket' = Put(bucket, nextPath, Fetch(s.image, bucket))
            /\ nextPath' = nextPath + 1
            /\ localStorage' =
                  IF s.savedParses
                  THEN SetItem(localStorage,
                               [s.designState EXCEPT
                                   !.backgroundImagePath = nextPath,
                                   !.backgroundImage = PublicUrl(nextPath)])
                  ELSE localStorage
       ELSE UNCHANGED <<bucket, nextPath, localStorage>>
    /\ saving' = saving \ {s}
    /\ Observe(IF ok /\ ~s.savedParses THEN "saveFailed" ELSE "saveFinished", NoLayer)
    /\ UNCHANGED <<canvas, canvasVars, canvasLife, designVars, historyVars,
                   selectedTextLayer, uploadState, uploading, autosaveTimer,
                   resetting, loadingFromStorage, hasLoadedFromStorage,
                   supabaseConfigured, now>>

\* file.type of the files a user may pick
FileTypes == {"image/png", "image/jpeg", "application/pdf"}

\* file.type.includes('png')
IncludesPng(type) == type = "image/png"

\* The type check made only after setUploadState({isUploading: true, ...})
RejectFileLate ==
    /\ uploadState' = [isUploading |-> TRUE]
    /\ Observed("uploadRejected", NoLayer, 1)
    /\ UNCHANGED <<canvas, canvasVars, canvasLife, designVars, historyVars,
                   selectedTextLayer, uploading, autosaveTimer, saving, localStorage,
                   bucket, nextPath, resetting, loadingFromStorage,
                   hasLoadedFromStorage, supabaseConfigured, now>>

\* alert('Please upload a PNG file'); return;
RejectFile ==
    /\ Observed("uploadRejected", NoLayer, 1)
    /\ UNCHANGED <<canvas, canvasVars, canvasLife, designVars, historyVars,
                   selectedTextLayer, storeVars, now>>

\* handleImageUpload on a file whose type does not include 'png': the first check
\* after "if (!file) return" ends the handler
UploadRejected(type) ==
    /\ ~IncludesPng(type)
    /\ RejectFile

\* handleImageUpload of a PNG up to its first await: the file is read, the upload state is
\* set, the picture is loaded onto a usable canvas.  Without Supabase the call runs
\* to its end at once: the data URL becomes the background, the upload state is
\* cleared again and addToHistory records the closure's design.
UploadImage(picture) ==
    /\ canvas
    /\ uploading = {}
    /\ LET imageUrl == DataUrl(picture)
           started == IF ~disposed THEN {Load(imageUrl)} ELSE {}
           h == AddToHistory(backgroundImage, textLayers, canvasSize, history,
                             historyIndex)
       IN IF supabaseConfigured
          THEN /\ uploadState' = [isUploading |-> TRUE]
               /\ uploading' = {[imageUrl |-> imageUrl, canvasLive |-> ~disposed,
                                 backgroundImage |-> backgroundImage,
                                 textLayers |-> textLayers, canvasSize |-> canvasSize,
                                 history |-> history, historyIndex |-> historyIndex]}
               /\ imageLoads' = imageLoads \cup started
               /\ UNCHANGED <<backgroundImage, history, historyIndex>>
          ELSE /\ uploadState' = [isUploading |-> FALSE]
               /\ uploading' = {}
               /\ backgroundImage' = imageUrl
               /\ history' = h.history
               /\ historyIndex' = h.historyIndex
               /\ imageLoads' = imageLoads \cup started
                                   \cup EnsureBackground(imageUrl, [isUploading |-> FALSE],
                                                         ~disposed, canvasImage)
    /\ Observe("uploadImage", NoLayer)
    /\ UNCHANGED <<canvas, canvasVars, disposed, canvasImage, textLayers, canvasSize,
                   selectedTextLayer, saving, localStorage, bucket, nextPath, resetting,
                   loadingFromStorage, hasLoadedFromStorage, supabaseConfigured, now>>

\* A failed upload that leaves the editor without a background
UploadedUrlOrNone(ok, imageUrl, path) == IF ok THEN PublicUrl(path) ELSE NoImage

\* What handleImageUpload hands to setBackgroundImage: getImagePublicUrl(imagePath)
\* after the upload, the data URL it read from the file in its catch
UploadedUrl(ok, imageUrl, path) == IF ok THEN PublicUrl(path) ELSE imageUrl

\* An upload state that is cleared at the end of the try block only
UploadStateWithoutFinally(ok) == [isUploading |-> ~ok]

\* The upload state handleImageUpload leaves, whether uploadImageToSupabase
\* resolved or threw: finally { setUploadState({ isUploading: false }) }
UploadStateAfter(ok) == [isUploading |-> FALSE]

\* reader.onerror: the file could not be read; one alert, the upload state is set
\* to "not uploading".  As in UploadImage, no other upload is in flight.
ReadFails ==
    /\ canvas
    /\ uploading = {}
    /\ uploadState' = [isUploading |-> FALSE]
    /\ Observed("readFailed", NoLayer, 1)
    /\ UNCHANGED <<canvas, canvasVars, canvasLife, designVars, historyVars,
                   selectedTextLayer, uploading, saving, localStorage, bucket,
                   nextPath, resetting, loadingFromStorage, hasLoadedFromStorage,
                   supabaseConfigured, now>>

\* handleImageUpload after its await.  On success the picture is in the bucket and
\* its public URL becomes the background; tryLoadImage loads it onto the closure's
\* canvas if that one is still usable.  On failure the data URL becomes the
\* background.  Then the upload state is cleared and addToHistory, the one of the
\* render the call started in, records that render's design onto that render's
\* history.
UploadFinishes(ok) ==
    /\ uploading # {}
    /\ LET u == The(uploading)
           url == UploadedUrl(ok, u.imageUrl, nextPath)
           newHistory == Append(SubSeq(u.history, 1, u.historyIndex + 1),
                                Design(u.textLayers, u.backgroundImage, u.canvasSize))
           h == AddToHistory(u.backgroundImage, u.textLayers, u.canvasSize, u.history,
                             u.historyIndex)
           started == IF ok /\ u.canvasLive THEN {Load(url)} ELSE {}
       IN /\ backgroundImage' = url
          /\ bucket' = IF ok THEN Put(bucket, nextPath, Fetch(u.imageUrl, bucket))
                       ELSE bucket
          /\ nextPath' = IF ok THEN nextPath + 1 ELSE nextPath
          /\ history' = h.history
          /\ historyIndex' = IF Len(newHistory) > HistoryCap THEN historyIndex
                             ELSE h.historyIndex
          /\ imageLoads' = imageLoads \cup started
                              \cup EnsureBackground(url, UploadStateAfter(ok),
                                                    canvas /\ ~disposed, canvasImage)
          /\ fabricObjects' = Collect(fabricObjects, canvasObjects, activeObject,
                                      textLayers, h.history)
    /\ uploadState' = UploadStateAfter(ok)
    /\ uploading' = {}
    /\ Observed("uploadFinished", NoLayer, IF ok THEN 0 ELSE 1)
    /\ UNCHANGED <<canvas, canvasObjects, activeObject, canvasDims, disposed,
                   canvasImage, textLayers, canvasSize, selectedTextLayer, saving,
                   localStorage, resetting, loadingFromStorage, hasLoadedFromStorage,
                   supabaseConfigured, now>>

\* The promise of a loadBackgroundImage resolves: the canvas size becomes the scaled
\* bounds of the picture, and the canvas the load was started on, if it is still in
\* use, takes the size and the picture.  A canvas size that changes makes the next
\* render dispose of the canvas in use.
ImageLoaded(l) ==
    /\ l \in imageLoads
    /\ Fetch(l.url, bucket) # NoFile
    /\ LET picture == Fetch(l.url, bucket)
           size == BoundsOf(picture)
           gone == Disposes(size)
       IN /\ canvasSize' = size
          /\ canvasDims' = IF l.live THEN size ELSE canvasDims
          /\ canvasImage' = IF gone THEN NoFile
                            ELSE IF l.live THEN picture ELSE canvasImage
          /\ canvasObjects' = IF gone THEN <<>> ELSE canvasObjects
          /\ activeObject' = IF gone THEN NoObject ELSE activeObject
          /\ disposed' = (disposed \/ gone)
          /\ imageLoads' = IF gone THEN Stale(imageLoads \ {l}) ELSE imageLoads \ {l}
          /\ fabricObjects' = Collect(fabricObjects, canvasObjects', activeObject',
                                      textLayers, history)
          /\ uploading' = Unbound(uploading, gone)
          /\ resetting' = Unbound(resetting, gone)
          /\ loadingFromStorage' = Unbound(loadingFromStorage, gone)
    /\ Observe("imageLoaded", NoLayer)
    /\ UNCHANGED <<canvas, textLayers, backgroundImage, historyVars, selectedTextLayer,
                   uploadState, saving, localStorage, bucket, nextPath,
                   hasLoadedFromStorage, supabaseConfigured, now>>

\* The promise of a loadBackgroundImage is rejected (nothing to fetch, no network):
\* the catch ends in one alert
ImageLoadFails(l) ==
    /\ l \in imageLoads
    /\ imageLoads' = imageLoads \ {l}
    /\ Observed("imageLoadFailed", NoLayer, 1)
    /\ UNCHANGED <<canvas, canvasVars, disposed, canvasImage, designVars, historyVars,
                   selectedTextLayer, uploadState, uploading, saving, localStorage,
                   bucket, nextPath, resetting, loadingFromStorage,
                   hasLoadedFromStorage, supabaseConfigured, now>>

\* The "remove background image" button of the layer panel
RemoveBackground ==
    /\ backgroundImage # NoImage
    /\ backgroundImage' = NoImage
    /\ canvasImage' = IF canvas THEN NoFile ELSE canvasImage
    /\ Observe("removeBackground", NoLayer)
    /\ UNCHANGED <<canvas, canvasVars, disposed, imageLoads, textLayers, canvasSize,
                   historyVars, selectedTextLayer, uploadState, uploading, saving,
                   localStorage, bucket, nextPath, resetting, loadingFromStorage,
                   hasLoadedFromStorage, supabaseConfigured, now>>

\* resetDesign up to its await: with a stored path and Supabase configured the call
\* waits for deleteImageFromSupabase; otherwise it runs to its end at once
ResetDesignStarts ==
    IF ExistingPath # NoPath /\ supabaseConfigured
    THEN /\ resetting' = resetting \cup {[path |-> ExistingPath,
                                         canvasLive |-> canvas /\ ~disposed,
                                         call |-> NextCall(resetting)]}
         /\ Observe("resetStarted", NoLayer)
         /\ UNCHANGED <<canvas, canvasVars, canvasLife, designVars, historyVars,
                        selectedTextLayer, uploadState, uploading, saving, localStorage,
                        bucket, nextPath, loadingFromStorage, hasLoadedFromStorage,
                        supabaseConfigured, now>>
    ELSE /\ ResetDesign
         /\ localStorage' = {}
         /\ uploading' = Unbound(uploading, disposed' /\ ~disposed)
         /\ resetting' = Unbound(resetting, disposed' /\ ~disposed)
         /\ loadingFromStorage' = Unbound(loadingFromStorage, disposed' /\ ~disposed)
         /\ UNCHANGED <<uploadState, saving, bucket, nextPath, hasLoadedFromStorage,
                        supabaseConfigured>>

\* resetDesign after its await: the remote picture is gone, or the delete failed
\* and the error was logged; the stored item is removed and the state reset, the
\* canvas of the closure being cleared if it is still the one in use
ResetDesignFinishes(r, ok) ==
    /\ r \in resetting
    /\ bucket' = IF ok THEN Remove(bucket, r.path) ELSE bucket
    /\ localStorage' = {}
    /\ ResetState(r.canvasLive)
    /\ uploading' = Unbound(uploading, disposed' /\ ~disposed)
    /\ resetting' = Unbound(resetting \ {r}, disposed' /\ ~disposed)
    /\ loadingFromStorage' = Unbound(loadingFromStorage, disposed' /\ ~disposed)
    /\ Observe("resetDesign", NoLayer)
    /\ UNCHANGED <<canvas, uploadState, saving, nextPath, hasLoadedFromStorage,
                   supabaseConfigured, now>>

\* The first canvas of a session is published and the loadFromStorage effect runs
\* up to its await: the stored size is set; with a stored path and Supabase
\* configured the call waits for getImageFromSupabase, otherwise the stored
\* background is set and loaded and the stored layers are put on the canvas and
\* into the state.  A stored size other than the size in use makes the next render
\* dispose of the canvas.
LoadFromStorage ==
    /\ ~canvas
    /\ ~hasLoadedFromStorage
    /\ canvas' = TRUE
    /\ hasLoadedFromStorage' = TRUE
    /\ activeObject' = NoObject
    /\ canvasImage' = NoFile
    /\ IF localStorage = {} \/ ~Parses(localStorage)
       THEN /\ canvasObjects' = <<>>
            /\ canvasDims' = canvasSize
            /\ disposed' = FALSE
            /\ fabricObjects' = Collect(fabricObjects, <<>>, NoObject, textLayers, history)
            /\ UNCHANGED <<designVars, imageLoads, loadingFromStorage>>
       ELSE LET designState == The(localStorage)
                size == [width |-> designState.canvasWidth,
                         height |-> designState.canvasHeight]
                gone == size # canvasSize
                built == AddAllToCanvas(designState.textLayers, EmptyHeap, <<>>)
            IN /\ canvasSize' = size
               /\ canvasDims' = size
               /\ disposed' = gone
               /\ IF designState.backgroundImagePath # NoPath /\ supabaseConfigured
                  THEN /\ loadingFromStorage' = {[designState |-> designState,
                                                  canvasLive |-> ~gone]}
                       /\ canvasObjects' = <<>>
                       /\ fabricObjects' = EmptyHeap
                       /\ UNCHANGED <<textLayers, backgroundImage, imageLoads>>
                  ELSE /\ loadingFromStorage' = {}
                       /\ backgroundImage' = designState.backgroundImage
                       /\ textLayers' = designState.textLayers
                       /\ canvasObjects' = IF gone THEN <<>> ELSE built.objs
                       /\ fabricObjects' = IF gone THEN EmptyHeap ELSE built.heap
                       /\ imageLoads' = IF designState.backgroundImage # NoImage /\ ~gone
                                        THEN {Load(designState.backgroundImage)} ELSE {}
    /\ Observe("loadFromStorage", NoLayer)
    /\ UNCHANGED <<historyVars, selectedTextLayer, uploadState, uploading, saving,
                   localStorage, bucket, nextPath, resetting, supabaseConfigured, now>>

\* loadFromStorage after its await: the picture came as a data URL, or the download
\* failed and the stored public URL is used; the background is set and loaded onto
\* the closure's canvas if that one is still in use, and the stored layers are put
\* on that canvas and into the state
LoadFromStorageFinishes(f, ok) ==
    /\ f \in loadingFromStorage
    /\ ok => f.designState.backgroundImagePath \in DOMAIN bucket
    /\ LET designState == f.designState
           path == designState.backgroundImagePath
           forCanvas == IF ok THEN DataUrl(bucket[path]) ELSE designState.backgroundImage
           bg == IF ok
                 THEN IF designState.backgroundImage # NoImage
                      THEN designState.backgroundImage ELSE PublicUrl(path)
                 ELSE IF designState.backgroundImage # NoImage
                      THEN designState.backgroundImage ELSE backgroundImage
           started == IF forCanvas # NoImage /\ f.canvasLive THEN {Load(forCanvas)} ELSE {}
           built == AddAllToCanvas(designState.textLayers, fabricObjects, canvasObjects)
       IN /\ backgroundImage' = bg
          /\ textLayers' = designState.textLayers
          /\ canvasObjects' = IF f.canvasLive THEN built.objs ELSE canvasObjects
          /\ fabricObjects' = Collect(IF f.canvasLive THEN built.heap ELSE fabricObjects,
                                      canvasObjects', activeObject,
                                      designState.textLayers, history)
          /\ imageLoads' = imageLoads \cup started
                              \cup EnsureBackground(bg, uploadState, canvas /\ ~disposed,
                                                    canvasImage)
    /\ loadingFromStorage' = loadingFromStorage \ {f}
    /\ Observe("loadedFromStorage", NoLayer)
    /\ UNCHANGED <<canvas, activeObject, canvasDims, disposed, canvasImage, canvasSize,
                   historyVars, selectedTextLayer, uploadState, uploading, saving,
                   localStorage, bucket, nextPath, resetting, hasLoadedFromStorage,
                   supabaseConfigured, now>>

\* The page is loaded again: a new session starts on what the local store and the
\* bucket hold; the calls in flight are gone with the old page
Reload ==
    /\ canvas' = FALSE
    /\ canvasObjects' = <<>>
    /\ activeObject' = NoObject
    /\ canvasDims' = [width |-> DefaultWidth, height |-> DefaultHeight]
    /\ fabricObjects' = EmptyHeap
    /\ textLayers' = <<>>
    /\ selectedTextLayer' = NoLayer
    /\ history' = <<>>
    /\ historyIndex' = -1
    /\ backgroundImage' = NoImage
    /\ canvasSize' = [width |-> DefaultWidth, height |-> DefaultHeight]
    /\ disposed' = FALSE
    /\ canvasImage' = NoFile
    /\ imageLoads' = {}
    /\ uploadState' = [isUploading |-> FALSE]
    /\ uploading' = {}
    /\ autosaveTimer' = {}
    /\ saving' = {}
    /\ resetting' = {}
    /\ loadingFromStorage' = {}
    /\ hasLoadedFromStorage' = FALSE
    /\ Observe("reload", NoLayer)
    /\ UNCHANGED <<localStorage, bucket, nextPath, supabaseConfigured, now>>

\* ------------------------------------------------------------------ next
\* A handler run that is offered without being counted
Free(A) == A /\ UNCHANGED <<steps, storeVars, loaderVars>>

\* A handler run that uses up one unit of a budget of max runs
Counted(max, A) ==
    steps < max /\ A /\ steps' = steps + 1 /\ UNCHANGED <<storeVars, loaderVars>>

\* The recording handlers are offered while the history they leave fits the bound
HistoryRoom(max) == historyIndex + 1 < max

\* The handlers that change the structure of the design, offered within the bounds
Structure(maxLayers, maxObjects, maxHistory) ==
    \/ Free(InitializeCanvas)
    \/ (now < MaxNow /\ Free(Tick))
    \/ (Len(textLayers) < maxLayers /\ Len(canvasObjects) < maxObjects
            /\ HistoryRoom(maxHistory) /\ Free(AddTextLayer))
    \/ \E id \in Range(Ids(textLayers)) :
            HistoryRoom(maxHistory) /\ Free(DeleteTextLayer(id))
    \/ \E id \in Range(Ids(textLayers)) :
            HistoryRoom(maxHistory) /\ Free(MoveLayerUp(id))
    \/ \E id \in Range(Ids(textLayers)) :
            HistoryRoom(maxHistory) /\ Free(MoveLayerDown(id))
    \/ Free(Undo)
    \/ Free(Redo)
    \/ Free(ResetDesign)

\* Structural editing: layers, order, history
Next == Structure(MaxLayers, MaxObjects, MaxHistory)

Spec == Init /\ [][Next]_vars

\* ------------------------------------------------- a history filled to the cap
\* What one addTextLayer call at time id makes of an editor on the default canvas
AddedTo(s, id) ==
    LET size == [width |-> DefaultWidth, height |-> DefaultHeight]
        newLayer == NewLayer(id, size.width, size.height)
        text == FreshObject(s.fabricObjects)
        h == AddToHistory(NoImage, s.textLayers, size, s.history, s.historyIndex)
    IN [textLayers |-> Append(s.textLayers, newLayer),
        canvasObjects |-> Append(s.canvasObjects, text),
        fabricObjects |-> Alloc(s.fabricObjects, text, NewIText(newLayer)),
        history |-> h.history, historyIndex |-> h.historyIndex]

RECURSIVE AfterAdds(_)
\* The editor after n addTextLayer calls at the times 1..n
AfterAdds(n) ==
    IF n = 0
    THEN [textLayers |-> <<>>, canvasObjects |-> <<>>, fabricObjects |-> EmptyHeap,
          history |-> <<>>, historyIndex |-> -1]
    ELSE AddedTo(AfterAdds(n - 1), n)

\* The editor some time after n layers were added to an empty design; the store
\* and the uploads are left to the specification
Composed(n) ==
    LET s == AfterAdds(n)
    IN /\ canvas = TRUE
       /\ canvasObjects = s.canvasObjects
       /\ activeObject = NoObject
       /\ canvasDims = [width |-> DefaultWidth, height |-> DefaultHeight]
       /\ fabricObjects = s.fabricObjects
       /\ textLayers = s.textLayers
       /\ selectedTextLayer = n
       /\ history = s.history
       /\ historyIndex = s.historyIndex
       /\ backgroundImage = NoImage
       /\ canvasSize = [width |-> DefaultWidth, height |-> DefaultHeight]
       /\ disposed = FALSE
       /\ canvasImage = NoFile
       /\ imageLoads = {}
       /\ NoSizing
       /\ now = n + 1
       /\ steps = 0
       /\ lastOp = [op |-> "addTextLayer", id |-> n, prev |-> "addTextLayer",
                   alerts |-> 0]
       /\ pre = Design(SubSeq(s.textLayers, 1, n - 1), NoImage,
                       [width |-> DefaultWidth, height |-> DefaultHeight])

\* The same editor without Supabase and with an empty local store
InitAfter(n) == Composed(n) /\ Offline

\* A history filled up to the cap, or one snapshot short of it
InitCap == \E n \in (HistoryCap - 1)..HistoryCap : InitAfter(n)

\* The layers the panel shows first and last
EndIds == {textLayers[i].id : i \in {1, Len(textLayers)} \cap DOMAIN textLayers}

NextCap ==
    \/ Counted(CapSteps, Tick)
    \/ Counted(CapSteps, AddTextLayer)
    \/ \E id \in EndIds : Counted(CapSteps, DeleteTextLayer(id))
    \/ \E id \in EndIds : Counted(CapSteps, MoveLayerUp(id))
    \/ \E id \in EndIds : Counted(CapSteps, MoveLayerDown(id))
    \/ Counted(CapSteps, Undo)
    \/ Counted(CapSteps, Redo)
    \/ Counted(CapSteps, ResetDesign)

SpecCap == InitCap /\ [][NextCap]_vars

\* ------------------------------------------------------ a stack of layers
\* A design of several layers, each added at a time of its own
InitReorder == \E n \in 2..MaxLayers : InitAfter(n)

\* The handlers that change the structure of the design, within a budget of runs
Handlers(max) ==
    \/ Counted(max, Tick)
    \/ Counted(max, AddTextLayer)
    \/ \E id \in Range(Ids(textLayers)) : Counted(max, DeleteTextLayer(id))
    \/ \E id \in Range(Ids(textLayers)) : Counted(max, MoveLayerUp(id))
    \/ \E id \in Range(Ids(textLayers)) : Counted(max, MoveLayerDown(id))
    \/ Counted(max, Undo)
    \/ Counted(max, Redo)
    \/ Counted(max, ResetDesign)

NextReorder == Handlers(ReorderSteps)

SpecReorder == InitReorder /\ [][NextReorder]_vars

\* ------------------------------------------------------- the whole editor
Selection(max) ==
    \/ \E o \in Range(canvasObjects) : Counted(max, SelectOnCanvas(o))
    \/ Counted(max, ClearSelection)
    \/ \E id \in Range(Ids(textLayers)) : Counted(max, SelectLayer(id))

Edit(max) ==
    \/ \E u \in PanelUpdates : Counted(max, PanelEdit(u))
    \/ \E id \in IdsInUse, u \in PanelUpdates : Counted(max, UpdateMissingLayer(id, u))
    \/ \E id \in Range(Ids(textLayers)) : Counted(max, ToggleLayerVisibility(id))
    \/ \E t \in Texts : Counted(max, TextChanged(t))
    \/ \E left \in DragLefts, top \in DragTops : Counted(max, ObjectMoving(left, top))
    \/ \E a \in Angles : Counted(max, ObjectRotating(a))
    \/ \E k \in ArrowKeys : Counted(max, ArrowKey(k[1], k[2]))

\* A design of one or more layers
InitEdit == \E n \in 1..EditLayers : InitAfter(n)

\* Structure, selection, attribute edits and gestures
NextEdit == Handlers(EditSteps) \/ Selection(EditSteps) \/ Edit(EditSteps)

SpecEdit == InitEdit /\ [][NextEdit]_vars

\* ------------------------------------------------- a session with a store
\* A handler of the editor followed by the effects of the render it causes: the
\* autosave effect, and the closures of unfinished calls losing their canvas when
\* the render disposes of it
Handled(max, A) ==
    /\ steps < max
    /\ A
    /\ steps' = steps + 1
    /\ uploading' = Unbound(uploading, disposed' /\ ~disposed)
    /\ resetting' = Unbound(resetting, disposed' /\ ~disposed)
    /\ loadingFromStorage' = Unbound(loadingFromStorage, disposed' /\ ~disposed)
    /\ UNCHANGED <<uploadState, saving, localStorage, bucket, nextPath,
                   hasLoadedFromStorage, supabaseConfigured, loaderVars>>
    /\ AutosaveEffect

\* A step of an upload, a load or a reset, followed by the autosave effect of the
\* render it causes
Stepped(max, A) ==
    steps < max /\ A /\ steps' = steps + 1 /\ AutosaveEffect /\ UNCHANGED loaderVars

\* A step that causes no render: a timer firing, a save settling, the page loading
Timed(max, A) == steps < max /\ A /\ steps' = steps + 1 /\ UNCHANGED loaderVars

\* The values the property panel sends in a session with a store
SessionUpdates == {[text |-> "Hi"]}

\* The user works on a canvas in use
Usable == canvas /\ ~disposed

\* The designs an earlier session can have left in the local store: without a
\* background, with a data URL saved while Supabase was not configured, or with a
\* picture of the bucket at path 1
StoredDesigns ==
    {DesignRecord(SaveClosure(AfterAdds(n).textLayers, NoImage,
                              [width |-> DefaultWidth, height |-> DefaultHeight])) :
        n \in 0..SessionLayers}
    \cup {[DesignRecord(SaveClosure(AfterAdds(n).textLayers, DataUrl(picture),
                                    BoundsOf(picture)))
              EXCEPT !.backgroundImage = DataUrl(picture)] :
            n \in 0..SessionLayers,
            picture \in {p \in Pictures : DataUrl(p) \notin Oversized}}
    \cup {[DesignRecord(SaveClosure(AfterAdds(n).textLayers, PublicUrl(1),
                                    BoundsOf(picture)))
              EXCEPT !.backgroundImagePath = 1, !.backgroundImage = PublicUrl(1)] :
            n \in 0..SessionLayers, picture \in Pictures}

\* The page has just loaded: nothing is stored, or what is stored is not the text
\* of a record, or an earlier session left a design
PageLoaded ==
    /\ canvas = FALSE
    /\ canvasObjects = <<>>
    /\ activeObject = NoObject
    /\ canvasDims = [width |-> DefaultWidth, height |-> DefaultHeight]
    /\ fabricObjects = EmptyHeap
    /\ textLayers = <<>>
    /\ selectedTextLayer = NoLayer
    /\ history = <<>>
    /\ historyIndex = -1
    /\ backgroundImage = NoImage
    /\ canvasSize = [width |-> DefaultWidth, height |-> DefaultHeight]
    /\ disposed = FALSE
    /\ canvasImage = NoFile
    /\ imageLoads = {}
    /\ uploadState = [isUploading |-> FALSE]
    /\ uploading = {}
    /\ autosaveTimer = {}
    /\ saving = {}
    /\ resetting = {}
    /\ loadingFromStorage = {}
    /\ hasLoadedFromStorage = FALSE
    /\ supabaseConfigured \in BOOLEAN
    /\ \/ /\ localStorage \in {{}, {Corrupt}}
          /\ bucket = [path \in {} |-> NoFile]
          /\ nextPath = 1
       \/ \E d \in StoredDesigns :
            /\ localStorage = {d}
            /\ d.backgroundImagePath # NoPath => supabaseConfigured
            /\ bucket = IF d.backgroundImagePath = NoPath THEN [path \in {} |-> NoFile]
                        ELSE [path \in {1} |->
                                CHOOSE picture \in Pictures :
                                    BoundsOf(picture) = [width |-> d.canvasWidth,
                                                         height |-> d.canvasHeight]]
            /\ nextPath = IF d.backgroundImagePath = NoPath THEN 1 ELSE 2
    /\ now = SessionLayers + 1
    /\ steps = 0
    /\ lastOp = [op |-> "reload", id |-> NoLayer, prev |-> "init", alerts |-> 0]
    /\ pre = Design(<<>>, NoImage, [width |-> DefaultWidth, height |-> DefaultHeight])

InitLoaded == PageLoaded /\ NoSizing

InitSession == InitLoaded

NextSession ==
    \/ Stepped(SessionSteps, LoadFromStorage)
    \/ \E f \in loadingFromStorage, ok \in BOOLEAN :
            Stepped(SessionSteps, LoadFromStorageFinishes(f, ok))
    \/ (hasLoadedFromStorage /\ disposed /\ Handled(SessionSteps, InitializeCanvas))
    \/ (Usable /\ Len(textLayers) < SessionLayers
            /\ Handled(SessionSteps, AddTextLayer))
    \/ \E id \in Range(Ids(textLayers)) :
            Usable /\ Handled(SessionSteps, DeleteTextLayer(id))
    \/ \E id \in Range(Ids(textLayers)) :
            Usable /\ Handled(SessionSteps, SelectLayer(id))
    \/ \E u \in SessionUpdates : Usable /\ Handled(SessionSteps, PanelEdit(u))
    \/ (Usable /\ Handled(SessionSteps, Undo))
    \/ (Usable /\ Handled(SessionSteps, Redo))
    \/ \E picture \in Pictures : Usable /\ Stepped(SessionSteps, UploadImage(picture))
    \/ \E type \in FileTypes : Timed(SessionSteps, UploadRejected(type))
    \/ \E ok \in BOOLEAN : Stepped(SessionSteps, UploadFinishes(ok))
    \/ \E l \in imageLoads : Stepped(SessionSteps, ImageLoaded(l))
    \/ \E l \in imageLoads : Stepped(SessionSteps, ImageLoadFails(l))
    \/ (Usable /\ Stepped(SessionSteps, RemoveBackground))
    \/ (hasLoadedFromStorage /\ Stepped(SessionSteps, ResetDesignStarts))
    \/ \E r \in resetting, ok \in BOOLEAN :
            Stepped(SessionSteps, ResetDesignFinishes(r, ok))
    \/ Timed(SessionSteps, AutosaveFires)
    \/ \E s \in saving, ok \in BOOLEAN : Timed(SessionSteps, SaveFinishes(s, ok))
    \/ (hasLoadedFromStorage /\ Timed(SessionSteps, Reload))

SpecSession == InitSession /\ [][NextSession]_vars

\* ------------------------------------------------- resets of a stored design
\* A session that loaded a stored design with a picture of the bucket: the picture
\* is on the canvas and the record has been saved again
InitReset ==
    \E picture \in Pictures :
        /\ canvas = TRUE
        /\ canvasObjects = <<>>
        /\ activeObject = NoObject
        /\ canvasDims = BoundsOf(picture)
        /\ fabricObjects = EmptyHeap
        /\ textLayers = <<>>
        /\ selectedTextLayer = NoLayer
        /\ history = <<>>
        /\ historyIndex = -1
        /\ backgroundImage = PublicUrl(1)
        /\ canvasSize = BoundsOf(picture)
        /\ disposed = FALSE
        /\ canvasImage = picture
        /\ imageLoads = {}
        /\ uploadState = [isUploading |-> FALSE]
        /\ uploading = {}
        /\ autosaveTimer = {}
        /\ saving = {}
        /\ localStorage =
              {[DesignRecord(SaveClosure(<<>>, PublicUrl(1), BoundsOf(picture)))
                  EXCEPT !.backgroundImagePath = 1, !.backgroundImage = PublicUrl(1)]}
        /\ bucket = [path \in {1} |-> picture]
        /\ nextPath = 2
        /\ resetting = {}
        /\ loadingFromStorage = {}
        /\ hasLoadedFromStorage = TRUE
        /\ supabaseConfigured = TRUE
        /\ NoSizing
        /\ now = SessionLayers + 1
        /\ steps = 0
        /\ lastOp = [op |-> "autosave", id |-> NoLayer, prev |-> "imageLoaded",
                    alerts |-> 0]
        /\ pre = Design(<<>>, PublicUrl(1), BoundsOf(picture))

\* Resets, also overlapping ones, with layers added and deleted around them
NextReset ==
    \/ Stepped(ResetSteps, ResetDesignStarts)
    \/ \E r \in resetting, ok \in BOOLEAN :
            Stepped(ResetSteps, ResetDesignFinishes(r, ok))
    \/ (disposed /\ Handled(ResetSteps, InitializeCanvas))
    \/ (Usable /\ Len(textLayers) < SessionLayers /\ Handled(ResetSteps, AddTextLayer))
    \/ \E id \in Range(Ids(textLayers)) :
            Usable /\ Handled(ResetSteps, DeleteTextLayer(id))
    \/ Timed(ResetSteps, AutosaveFires)

SpecReset == InitReset /\ [][NextReset]_vars

\* ---------------------------------------------------------------------------
\* Undo and redo across a change of the canvas size: a design of one or two
\* layers gets a background picture, without Supabase
\* ---------------------------------------------------------------------------
InitRestore == \E n \in 1..2 : InitAfter(n)

NextRestore ==
    \/ (disposed /\ Handled(RestoreSteps, InitializeCanvas))
    \/ (Usable /\ Len(textLayers) < MaxLayers /\ Handled(RestoreSteps, AddTextLayer))
    \/ \E id \in Range(Ids(textLayers)) :
            Usable /\ Handled(RestoreSteps, DeleteTextLayer(id))
    \/ (Usable /\ Handled(RestoreSteps, Undo))
    \/ (Usable /\ Handled(RestoreSteps, Redo))
    \/ \E picture \in Pictures : Usable /\ Stepped(RestoreSteps, UploadImage(picture))
    \/ \E l \in imageLoads : Stepped(RestoreSteps, ImageLoaded(l))
    \/ \E l \in imageLoads : Stepped(RestoreSteps, ImageLoadFails(l))

SpecRestore == InitRestore /\ [][NextRestore]_vars

\* ---------------------------------------------------------------------------
\* The size computation of loadBackgroundImage on its own: fabric.Image.fromURL
\* hands over a picture of any size, the callback computes the new canvas size.
\* ---------------------------------------------------------------------------
\* Widths and heights around the limits, far below and far above them
Sides == {1, 300, 600, 799, 800, 801, 1199, 1200, 1201, 1500, 2400, 3000}

InitScale ==
    /\ Startup
    /\ img \in [width : Sides, height : Sides]
    /\ newSize = {}
    /\ request = NoRequest
    /\ initEffect = NoEffect

\* const imgWidth = img.width!; const imgHeight = img.height!; ... newWidth, newHeight
ComputeSize ==
    /\ newSize = {}
    /\ newSize' = {ScaledSize(img.width, img.height)}
    /\ UNCHANGED <<canvas, canvasVars, historyVars, canvasLife, storeVars,
                   designVars, selectedTextLayer, img, request, initEffect, now, steps,
                   lastOp, pre>>

NextScale == ComputeSize

SpecScale == InitScale /\ [][NextScale]_vars

\* ---------------------------------------------------------------------------
\* One call chain of loadBackgroundImage(imageUrl, fabricCanvas, retryCount): the
\* readiness check with its retries, the fetch, the fallback after a cross-origin
\* failure.  What the then-callback does to the editor is ImageLoaded above.
\* ---------------------------------------------------------------------------
\* What the readiness check finds: isCanvasReady() holds, or only the canvas and
\* its lowerCanvasEl are there, or not even those
Readiness == {"ready", "basic", "none"}

\* The ways fabric.Image.fromURL is rejected, by what error.message includes
Rejections == {"CORS", "Failed to fetch", "other"}

\* A retry limit twice as high
CanRetryLonger(retryCount) == retryCount < LoadRetries + LoadRetries

\* if (retryCount < 5)
CanRetry(retryCount) == retryCount < LoadRetries

InitLoad ==
    /\ PageLoaded
    /\ img = [width |-> DefaultWidth, height |-> DefaultHeight]
    /\ newSize = {}
    /\ initEffect = NoEffect
    /\ \E url \in {"public", "data"} :
           request = [NoRequest EXCEPT !.phase = "check", !.url = url]

\* The steps of the call chain leave the editor alone
Loading(A) ==
    /\ A
    /\ UNCHANGED <<canvas, canvasVars, historyVars, canvasLife, storeVars, designVars,
                   selectedTextLayer, img, initEffect, now, steps, lastOp, pre>>

\* loadBackgroundImage up to fabric.Image.fromURL: a canvas that is not ready
\* makes the call set a timer while retryCount < 5; after that the call goes on
\* with a canvas that has its lowerCanvasEl and gives up with an alert without
CheckCanvas(found) ==
    /\ request.phase = "check"
    /\ request' =
          IF found = "ready" THEN [request EXCEPT !.phase = "fetching"]
          ELSE IF CanRetry(request.retryCount)
          THEN [request EXCEPT !.phase = "waiting", !.retries = @ + 1]
          ELSE IF found = "none"
          THEN [request EXCEPT !.phase = "failed", !.alerts = @ + 1]
          ELSE [request EXCEPT !.phase = "fetching"]
    /\ UNCHANGED newSize

\* setTimeout(() => loadBackgroundImage(imageUrl, fabricCanvas, retryCount + 1), 500)
RetryFires ==
    /\ request.phase = "waiting"
    /\ request' = [request EXCEPT !.phase = "check", !.retryCount = @ + 1]
    /\ UNCHANGED newSize

\* loadImage.then(...): the picture is there, the size is computed and the picture
\* becomes the background
FetchResolves ==
    /\ request.phase = "fetching"
    /\ request' = [request EXCEPT !.phase = "loaded"]
    /\ newSize' = {ScaledSize(img.width, img.height)}

\* loadImage.catch(...): a cross-origin error on a Supabase URL with Supabase in use
\* starts getImageFromSupabase and returns; every other rejection ends in one alert
FetchRejects(error) ==
    /\ request.phase = "fetching"
    /\ request' =
          IF error = "CORS" /\ request.url = "public" /\ supabaseConfigured
          THEN [request EXCEPT !.phase = "fallback", !.fallbacks = @ + 1]
          ELSE [request EXCEPT !.phase = "failed", !.alerts = @ + 1]
    /\ UNCHANGED newSize

\* getImageFromSupabase(imagePath) settles: with the data URL the chain goes on as
\* loadBackgroundImage(dataUrl, fabricCanvas, retryCount + 1), otherwise one alert
FallbackSettles(ok) ==
    /\ request.phase = "fallback"
    /\ request' =
          IF ok THEN [request EXCEPT !.phase = "check", !.url = "data",
                                     !.retryCount = @ + 1]
          ELSE [request EXCEPT !.phase = "failed", !.alerts = @ + 1]
    /\ UNCHANGED newSize

NextLoad ==
    \/ \E found \in Readiness : Loading(CheckCanvas(found))
    \/ Loading(RetryFires)
    \/ Loading(FetchResolves)
    \/ \E error \in Rejections : Loading(FetchRejects(error))
    \/ \E ok \in BOOLEAN : Loading(FallbackSettles(ok))

\* Timers fire and promises settle
SpecLoad == InitLoad /\ [][NextLoad]_vars /\ WF_vars(NextLoad)

\* ---------------------------------------------------------------- properties
\* The step is a run of the handler op (time passing is the one step that is not
\* a handler run and leaves lastOp alone)
Ran(op) == lastOp'.op = op /\ now' = now

\* Two designs with the same layers (attributes and order), image and size
SameDesign(a, b) ==
    /\ AttributesOf(a.textLayers) = AttributesOf(b.textLayers)
    /\ a.backgroundImage = b.backgroundImage
    /\ a.canvasWidth = b.canvasWidth
    /\ a.canvasHeight = b.canvasHeight

\* The handlers that record a snapshot whenever they run
RecordingOps == {"addTextLayer", "deleteTextLayer"}

ReorderOps == {"moveLayerUp", "moveLayerDown"}

\* The step recorded a snapshot
Recorded ==
    \/ \E op \in RecordingOps : Ran(op) /\ lastOp'.id # NoLayer
    \/ \E op \in ReorderOps : Ran(op) /\ history' # history

\* C1: after a history-worthy operation O took the design from S to S', undo()
\* makes the design equal to S, and a redo() right after it makes it equal to S'.
UndoRedoInverse ==
    [][/\ ((\/ lastOp.op \in RecordingOps
            \/ lastOp.op \in ReorderOps /\ ~SameDesign(pre, CurrentDesign))
           /\ Ran("undo")
           => SameDesign(CurrentDesign', pre))
       /\ (lastOp.op = "undo" /\ lastOp.prev \in RecordingOps /\ Ran("redo")
           => SameDesign(CurrentDesign', pre))]_vars

\* C2: history never holds more than HistoryCap snapshots; a record made with
\* HistoryCap snapshots and the cursor on the last one drops the oldest snapshot,
\* leaves HistoryCap snapshots and the cursor at HistoryCap - 1, and the recorded
\* snapshot is the last entry.
HistoryCapped ==
    [][/\ Len(history) <= HistoryCap
       /\ Len(history') <= HistoryCap
       /\ (Recorded /\ Len(history) = HistoryCap /\ historyIndex = HistoryCap - 1
           => /\ Len(history') = HistoryCap
              /\ historyIndex' = HistoryCap - 1
              /\ history'[HistoryCap] = pre'
              /\ \A i \in 1..(HistoryCap - 1) : history'[i] = history[i + 1])]_vars

\* C2 happens: a record at the cap dropped the empty design the history began with
EvictedAtCap ==
    /\ lastOp.op \in RecordingOps
    /\ Len(history) = HistoryCap
    /\ historyIndex = HistoryCap - 1
    /\ history[HistoryCap] = pre
    /\ history[1].textLayers # <<>>

\* C3: undo() changes nothing when the cursor is at most 0, otherwise it moves the
\* cursor down by one and the design becomes the snapshot under the new cursor;
\* redo() changes nothing when the cursor is on the last snapshot, otherwise it
\* moves the cursor up by one and the design becomes the snapshot under the new
\* cursor; neither changes the history.
UndoRedoStep ==
    [][/\ (Ran("undo")
           => /\ history' = history
              /\ IF historyIndex <= 0
                 THEN UNCHANGED <<designVars, canvasObjects, historyIndex>>
                 ELSE /\ historyIndex' = historyIndex - 1
                      /\ CurrentDesign' = history[historyIndex' + 1])
       /\ (Ran("redo")
           => /\ history' = history
              /\ IF historyIndex >= Len(history) - 1
                 THEN UNCHANGED <<designVars, canvasObjects, historyIndex>>
                 ELSE /\ historyIndex' = historyIndex + 1
                      /\ CurrentDesign' = history[historyIndex' + 1])]_vars

\* C3 happens: an undo moved the cursor and restored a different design
UndoRestored ==
    /\ lastOp.op = "undo"
    /\ historyIndex >= 0
    /\ historyIndex < Len(history) - 1
    /\ CurrentDesign = history[historyIndex + 1]
    /\ ~SameDesign(pre, CurrentDesign)

\* C4: a record at cursor c below the cap leaves h[0..c] followed by the recorded
\* snapshot, with the cursor at c + 1, the last index; a redo() right after a record
\* changes nothing.
RecordTruncates ==
    [][/\ (Recorded /\ historyIndex + 2 <= HistoryCap
           => /\ history' = Append(SubSeq(history, 1, historyIndex + 1), pre')
              /\ historyIndex' = historyIndex + 1
              /\ historyIndex' = Len(history') - 1)
       /\ (lastOp.op \in RecordingOps /\ Ran("redo")
           => UNCHANGED <<designVars, canvasObjects, history, historyIndex>>)]_vars

\* C4 happens: a layer was added right after an undo had restored a snapshot, and
\* that snapshot is now followed by the record alone
RecordedAfterUndo ==
    /\ lastOp.op = "addTextLayer"
    /\ lastOp.prev = "undo"
    /\ historyIndex >= 1
    /\ historyIndex = Len(history) - 1
    /\ history[historyIndex + 1] = pre
    /\ history[historyIndex] = pre

\* C5: no step changes a snapshot that stays in the history: every entry after the
\* step is the entry that was at its place (or one place up, after the oldest was
\* dropped at the cap), or it is the last entry and the snapshot just recorded.
SnapshotsImmutable ==
    [][\A i \in 1..Len(history') :
          \/ i = Len(history') /\ Recorded /\ history'[i] = pre'
          \/ i <= Len(history) /\ history'[i] = history[i]
          \/ Len(history) = HistoryCap /\ i < HistoryCap /\ Recorded
                /\ history'[i] = history[i + 1]]_vars

\* C5 happens: an attribute edit or gesture changed a layer after a snapshot of it
\* was taken, and the snapshot still holds the layer as it was
EditedAfterSnapshot ==
    /\ lastOp.op \in {"updateTextLayer", "toggleLayerVisibility", "textChanged",
                      "moving", "rotating", "arrowKey"}
    /\ \E k \in 1..Len(history) :
         \E i \in 1..Len(history[k].textLayers), j \in 1..Len(textLayers) :
            /\ history[k].textLayers[i].id = textLayers[j].id
            /\ textLayers[j].id = lastOp.id
            /\ Attributes(history[k].textLayers[i]) # Attributes(textLayers[j])

\* C6: no two layers of the design have the same id.
UniqueLayerIds ==
    \A i, j \in 1..Len(textLayers) : textLayers[i].id = textLayers[j].id => i = j

\* C7: after every addTextLayer, deleteTextLayer, moveLayerUp and moveLayerDown the
\* layerId tags of the canvas objects, bottom to top, are the ids of textLayers.
CanvasMatchesLayers ==
    lastOp.op \in RecordingOps \cup ReorderOps => CanvasTags = Ids(textLayers)

\* C8: moveLayerUp on a layer at index i that is not the topmost puts it at i + 1
\* and its former upper neighbour at i, leaves every other layer at its index, and
\* leaves the canvas stacked in the order of the array.
MoveUpSwapsWithNeighbour ==
    [][\A i \in 1..(Len(textLayers) - 1) :
          Ran("moveLayerUp") /\ FindIndex(textLayers, lastOp'.id) = i
          => /\ Len(textLayers') = Len(textLayers)
             /\ Attributes(textLayers'[i + 1]) = Attributes(textLayers[i])
             /\ Attributes(textLayers'[i]) = Attributes(textLayers[i + 1])
             /\ \A j \in (1..Len(textLayers)) \ {i, i + 1} :
                   Attributes(textLayers'[j]) = Attributes(textLayers[j])
             /\ CanvasTags' = Ids(textLayers')]_vars

BoundaryMoveIsNoOp ==
    [][(\/ Ran("moveLayerUp") /\ FindIndex(textLayers, lastOp'.id) = Len(textLayers)
        \/ Ran("moveLayerDown") /\ FindIndex(textLayers, lastOp'.id) = 1)
       => UNCHANGED <<textLayers, canvasObjects, selectedTextLayer, activeObject,
                      history, historyIndex>>]_vars

\* C10 happens: moveLayerUp ran on the topmost of several layers and the design is
\* the one it found
MovedUpAtTop ==
    /\ lastOp.op = "moveLayerUp"
    /\ Len(textLayers) >= 2
    /\ FindIndex(textLayers, lastOp.id) = Len(textLayers)
    /\ pre = CurrentDesign
    /\ history # <<>>

\* C16: with a canvas, addTextLayer appends exactly one layer as the last element of
\* textLayers and leaves the layers before it as they were; the new layer has the
\* text "New Text", x and y at half the canvas width and height, rotation 0 and is
\* visible, and it becomes the selected layer.  Without a canvas addTextLayer
\* changes nothing.
AddAppendsOneLayer ==
    [][Ran("addTextLayer")
       => IF canvas
          THEN /\ Len(textLayers') = Len(textLayers) + 1
               /\ SubSeq(textLayers', 1, Len(textLayers)) = textLayers
               /\ LET added == textLayers'[Len(textLayers')]
                  IN /\ added.text = "New Text"
                     /\ added.x = canvasDims.width \div 2
                     /\ added.y = canvasDims.height \div 2
                     /\ added.rotation = 0
                     /\ added.visible
                     /\ selectedTextLayer' = added.id
          ELSE UNCHANGED <<canvas, canvasVars, designVars, historyVars,
                           selectedTextLayer>>]_vars

\* C16 happens: a layer was added on top of another one and is the selected layer
AddedOnTop ==
    /\ lastOp.op = "addTextLayer"
    /\ lastOp.id # NoLayer
    /\ Len(textLayers) >= 2
    /\ textLayers[Len(textLayers)].id = lastOp.id
    /\ SubSeq(textLayers, 1, Len(textLayers) - 1) = pre.textLayers
    /\ selectedTextLayer = lastOp.id

\* C17: deleteTextLayer(id) removes exactly the layer with that id: textLayers
\* becomes the array without the one element that has the id, the other layers keep
\* their relative order and their attributes, and the selection is cleared if the
\* deleted layer was the selected one (so a layer added to an empty design and then
\* deleted leaves zero layers and no selection).
DeleteRemovesOneLayer ==
    [][\A i \in 1..Len(textLayers) :
          Ran("deleteTextLayer") /\ FindIndex(textLayers, lastOp'.id) = i
          => /\ textLayers' = SubSeq(textLayers, 1, i - 1)
                                \o SubSeq(textLayers, i + 1, Len(textLayers))
             /\ (selectedTextLayer = lastOp'.id => selectedTextLayer' = NoLayer)]_vars

Tagged(objs, heap, id) == {o \in Range(objs) : heap[o].layerId = id}

\* C19: an updateTextLayer, arrow-key nudge or deleteTextLayer on a layer whose text
\* object is on the live canvas reaches that object in the same step, whether or not
\* the layer stores its back-reference: after an update or a nudge the object shows
\* the layer's attributes, after a delete no object with the layer's tag is left.
OperationsReachCanvas ==
    [][\A i \in 1..Len(textLayers) :
          /\ textLayers[i].id = lastOp'.id
          /\ Tagged(canvasObjects, fabricObjects, lastOp'.id) # {}
          => /\ (Ran("updateTextLayer") \/ Ran("arrowKey")
                 => \A o \in Tagged(canvasObjects', fabricObjects', lastOp'.id) :
                       fabricObjects'[o] = SetFromLayer(fabricObjects'[o], textLayers'[i]))
             /\ (Ran("deleteTextLayer")
                 => Tagged(canvasObjects', fabricObjects', lastOp'.id) = {})]_vars

\* The step writes the design record to the local store: saveToStorage reaches its
\* localStorage.setItem, at once or after its upload settled
Writes ==
    \/ Ran("autosave") /\ saving' = saving
    \/ Ran("saveFinished") /\ nextPath' # nextPath

\* C11: while isUploading is true nothing is written to the local store, whatever
\* state changes are made during the upload and whatever autosave was scheduled or
\* had started before the upload began
NoWriteWhileUploading == [][uploadState.isUploading => ~Writes]_vars

\* The picture the editor shows at startup for a stored record: the download of
\* backgroundImagePath when Supabase is configured and the bucket has the file,
\* otherwise what the stored backgroundImage gives
Resolves(record, b) ==
    IF /\ record.backgroundImagePath # NoPath
       /\ supabaseConfigured
       /\ record.backgroundImagePath \in DOMAIN b
    THEN b[record.backgroundImagePath]
    ELSE Fetch(record.backgroundImage, b)

\* The record holds the design: the layers in order with their attributes, the
\* canvas size, and a background reference that gives the picture of bg
SavedAsIs(record, layers, bg, size, b) ==
    /\ AttributesOf(record.textLayers) = AttributesOf(layers)
    /\ record.canvasWidth = size.width
    /\ record.canvasHeight = size.height
    /\ Resolves(record, b) = Fetch(bg, b)

\* The step is a timer firing whose saveToStorage writes the record at once
WritesAtOnce == Ran("autosave") /\ saving' = saving

\* C12: autosave is debounced: after a burst of changes at most one timer is
\* pending, it holds the design as of the last change, and the save it starts
\* writes that design
DebouncedAutosave ==
    [][/\ Cardinality(autosaveTimer') <= 1
       /\ autosaveTimer' # {} =>
             The(autosaveTimer') = SaveClosure(textLayers', backgroundImage', canvasSize')
       /\ WritesAtOnce =>
             SavedAsIs(The(localStorage'), textLayers, backgroundImage, canvasSize,
                       bucket')]_vars

\* The state after loadFromStorage ran to its end on the record d
LoadedAs(d) ==
    /\ AttributesOf(textLayers') = AttributesOf(d.textLayers)
    /\ canvasSize' = [width |-> d.canvasWidth, height |-> d.canvasHeight]
    /\ Fetch(backgroundImage', bucket') = Resolves(d, bucket')

\* Nothing but the publishing of the next canvas has happened since loadFromStorage
\* began to wait
Undisturbed ==
    \/ lastOp.op = "loadFromStorage"
    \/ lastOp.op = "initializeCanvas" /\ lastOp.prev = "loadFromStorage"

\* C13: round trip: a save stores the layers (count, order, the twelve
\* attributes), the canvas size and a background reference that gives the same
\* picture, and loading a stored record at startup yields what the record holds
RoundTrip ==
    [][/\ WritesAtOnce =>
             SavedAsIs(The(localStorage'), textLayers, backgroundImage, canvasSize,
                       bucket')
       /\ /\ Ran("loadFromStorage")
          /\ localStorage # {} /\ Parses(localStorage)
          /\ loadingFromStorage' = {}
          => LoadedAs(The(localStorage))
       /\ Ran("loadedFromStorage") /\ Undisturbed =>
             \A f \in loadingFromStorage : LoadedAs(f.designState)]_vars

\* C14: when resetDesign completes the layers are empty, the background is null,
\* nothing is selected, the history is empty with cursor -1, the canvas size is
\* 800x600, the canvas in use holds no text object and the stored record is gone,
\* also when deleting the remote picture failed
ResetClearsAll ==
    [][Ran("resetDesign") =>
        /\ textLayers' = <<>>
        /\ backgroundImage' = NoImage
        /\ selectedTextLayer' = NoLayer
        /\ history' = <<>>
        /\ historyIndex' = -1
        /\ canvasSize' = [width |-> DefaultWidth, height |-> DefaultHeight]
        /\ canvasObjects' = <<>>
        /\ localStorage' = {}]_vars

\* No upload, picture load, startup load or reset is under way
Settled ==
    /\ uploading = {}
    /\ imageLoads = {}
    /\ loadingFromStorage = {}
    /\ resetting = {}

\* C15: the canvas size is the scaled bounds of the picture loaded last, and the
\* default 800x600 whenever no background image is set (once the calls under way
\* have settled)
SizeFollowsBackground ==
    /\ canvasImage # NoFile => canvasSize = BoundsOf(canvasImage)
    /\ backgroundImage = NoImage /\ Settled =>
          canvasSize = [width |-> DefaultWidth, height |-> DefaultHeight]

\* The handlers and callbacks that are not history-worthy
EditOps == {"updateTextLayer", "toggleLayerVisibility", "arrowKey", "textChanged",
            "moving", "rotating", "selectLayer", "selectOnCanvas", "clearSelection"}

\* The step put exactly one snapshot after the entries up to the cursor (dropping
\* the oldest entry at the cap) and nothing else happened to the history
RecordsOne ==
    LET kept == SubSeq(history, 1, historyIndex + 1)
    IN IF Len(kept) < HistoryCap
       THEN /\ Len(history') = Len(kept) + 1
            /\ SubSeq(history', 1, Len(kept)) = kept
            /\ historyIndex' = historyIndex + 1
       ELSE /\ Len(history') = HistoryCap
            /\ SubSeq(history', 1, HistoryCap - 1) = Tail(kept)
            /\ historyIndex' = historyIndex

\* The step is an operation that is history-worthy: a layer added or deleted, an
\* effective reorder, an image upload that ran to its end
HistoryWorthy ==
    \/ \E op \in RecordingOps : Ran(op) /\ lastOp'.id # NoLayer
    \/ \E op \in ReorderOps : Ran(op) /\ Ids(textLayers') # Ids(textLayers)
    \/ Ran("uploadFinished")
    \/ Ran("uploadImage") /\ ~uploadState'.isUploading

\* C20: the history changes only at history-worthy operations: panel edits,
\* visibility toggles, arrow keys, gesture callbacks and selection changes leave
\* the history and the cursor unchanged, and each addTextLayer, deleteTextLayer,
\* effective reorder and completed image upload records exactly one snapshot
HistoryOnlyWhenWorthy ==
    [][/\ (\E op \in EditOps : Ran(op)) => UNCHANGED <<history, historyIndex>>
       /\ HistoryWorthy => RecordsOne]_vars

\* C21: the canvas size computed for a picture of w x h is at most 1200 x 800 and
\* has the picture's aspect ratio; a picture within the limits keeps its size,
\* any other is scaled so that the width is 1200 or the height is 800; a picture
\* of 3000 x 1500 gives 1200 x 600.
Whole(k) == Ratio(k, 1)
ScaledToFit ==
    \A size \in newSize :
        LET W == size.width
            H == size.height
            w == img.width
            h == img.height
        IN /\ W.num <= MaxCanvasWidth * W.den
           /\ H.num <= MaxCanvasHeight * H.den
           /\ Times(h, W) = Times(w, H)
           /\ (w <= MaxCanvasWidth /\ h <= MaxCanvasHeight)
                  => W = Whole(w) /\ H = Whole(h)
           /\ (w > MaxCanvasWidth \/ h > MaxCanvasHeight)
                  => W = Whole(MaxCanvasWidth) \/ H = Whole(MaxCanvasHeight)
           /\ (w = 3000 /\ h = 1500) => W = Whole(1200) /\ H = Whole(600)

ScaledFrom3000x1500 ==
    /\ img = [width |-> 3000, height |-> 1500]
    /\ newSize = {[width |-> Whole(1200), height |-> Whole(600)]}

\* The background the writing saveToStorage closed over
SavedImage ==
    IF Ran("autosave") THEN The(autosaveTimer).backgroundImage
    ELSE The(saving \ saving').image

\* C22: with Supabase, once a newly uploaded background is autosaved the stored
\* backgroundImagePath names a blob holding the new picture, and the blob the
\* previous record pointed to is deleted by then
NewBlobPersisted ==
    [][Writes /\ supabaseConfigured /\ Fetch(SavedImage, bucket) # NoFile =>
          LET record == The(localStorage')
              picture == Fetch(SavedImage, bucket)
              previous == ExistingPath
          IN /\ record.backgroundImagePath \in DOMAIN bucket'
             /\ bucket'[record.backgroundImagePath] = picture
             /\ (previous \in DOMAIN bucket /\ bucket[previous] # picture)
                   => previous \notin DOMAIN bucket']_vars

\* The URL is the public URL of a blob of the bucket
RemotelyStored(url, b) == \E path \in DOMAIN b : url = PublicUrl(path)

\* C23: with Supabase a background that is already stored remotely is not
\* uploaded again: no save puts a blob into the bucket for a background that is
\* the public URL of a blob already there
NotUploadedAgain ==
    [][Ran("saveFinished") /\ DOMAIN bucket' # DOMAIN bucket =>
          ~RemotelyStored(SavedImage, bucket)]_vars

\* C24: without Supabase, when the background is too large for the local store,
\* the save still writes a record: the image is left out of it, and it holds the
\* current textLayers and canvas size
LargeImageLeftOut ==
    [][/\ Ran("autosave") \/ Ran("autosaveFailed")
       /\ ~supabaseConfigured
       /\ The(autosaveTimer).backgroundImage \in Oversized
       => localStorage' = {DesignRecord(The(autosaveTimer))}]_vars

\* C25: when the stored item cannot be parsed at startup the editor starts as if
\* nothing had been saved (no layers, no background, 800 x 600, empty history, no
\* error shown), and the saves after that work as usual: a save whose upload
\* succeeded writes its record
CorruptStoreIgnored ==
    [][/\ Ran("loadFromStorage") /\ ~Parses(localStorage) =>
             /\ textLayers' = <<>>
             /\ backgroundImage' = NoImage
             /\ canvasSize' = [width |-> DefaultWidth, height |-> DefaultHeight]
             /\ history' = <<>> /\ historyIndex' = -1
             /\ lastOp'.alerts = 0
       /\ (Ran("saveFinished") \/ Ran("saveFailed")) /\ nextPath' # nextPath =>
             \E record \in localStorage' : record.backgroundImagePath = nextPath]_vars

UploadFailureFallsBack ==
    [][Ran("uploadFinished") /\ bucket' = bucket =>
          /\ backgroundImage' = The(uploading).imageUrl
          /\ backgroundImage' \in DataUrls
          /\ lastOp'.alerts = 1
          /\ textLayers' = textLayers
          /\ ~uploadState'.isUploading /\ uploading' = {}
          /\ canvas' = canvas /\ disposed' = disposed]_vars

FellBackWithLayers ==
    /\ lastOp.op = "uploadFinished"
    /\ lastOp.alerts = 1
    /\ backgroundImage \in DataUrls
    /\ bucket = <<>>
    /\ textLayers # <<>>
    /\ ~uploadState.isUploading

\* The call chain has come to its end
Terminated == request.phase \in {"loaded", "failed"}

LateLoadDiscarded ==
    [][Ran("imageLoaded") /\ lastOp.op = "resetDesign" =>
          /\ canvasSize' = [width |-> DefaultWidth, height |-> DefaultHeight]
          /\ canvasImage' = NoFile
          /\ backgroundImage' = NoImage]_vars

\* The step is an undo or a redo that restored a snapshot
Restores == (Ran("undo") \/ Ran("redo")) /\ historyIndex' # historyIndex

\* C30: after undo or redo restored a snapshot, textLayers, background and canvas
\* size are the snapshot's, and the canvas in use holds one text object per layer
\* of the snapshot, in its order, and no object of the design before; so does the
\* canvas that replaces it when the restored size differs
RestoredOntoCanvas ==
    [][/\ Restores =>
             LET state == history[historyIndex' + 1]
             IN /\ AttributesOf(textLayers') = AttributesOf(state.textLayers)
                /\ backgroundImage' = state.backgroundImage
                /\ canvasSize' = [width |-> state.canvasWidth,
                                  height |-> state.canvasHeight]
                /\ ~disposed' => CanvasTags' = Ids(state.textLayers)
       /\ /\ Ran("initializeCanvas")
          /\ lastOp.op \in {"undo", "redo"}
          /\ canvasSize # [width |-> pre.canvasWidth, height |-> pre.canvasHeight]
          => CanvasTags' = Ids(textLayers')]_vars

\* ---------------------------------------------------------------------------
\* Reordering after the canvas was replaced: a design of two or three layers, a
\* picture is uploaded (without Supabase) and loaded, the layers are moved.
\* ---------------------------------------------------------------------------
RelayerSteps == 4      \* handler runs and load completions offered

InitRelayer == \E n \in 2..MaxLayers : InitAfter(n)

NextRelayer ==
    \/ (disposed /\ Handled(RelayerSteps, InitializeCanvas))
    \/ \E id \in Range(Ids(textLayers)) :
            Usable /\ Handled(RelayerSteps, MoveLayerUp(id))
    \/ \E id \in Range(Ids(textLayers)) :
            Usable /\ Handled(RelayerSteps, MoveLayerDown(id))
    \/ \E picture \in Pictures : Usable /\ Stepped(RelayerSteps, UploadImage(picture))
    \/ \E l \in imageLoads : Stepped(RelayerSteps, ImageLoaded(l))

SpecRelayer == InitRelayer /\ [][NextRelayer]_vars

\* ---- Reorder without a canvas object ----

\* The layer is in the array and neither its stored back-reference nor a canvas
\* object carrying its id tag leads to a canvas object
NoCanvasObject(layerId) ==
    /\ FindIndex(textLayers, layerId) # 0
    /\ textLayers[FindIndex(textLayers, layerId)].fabricObject = NoObject
    /\ FindByLayerId(canvasObjects, fabricObjects, layerId) = NoObject

\* C31: a moveLayerUp or moveLayerDown that cannot find the layer's canvas object
\* leaves the order of textLayers, the canvas stacking and the history unchanged
ReorderAllOrNothing ==
    [][(Ran("moveLayerUp") \/ Ran("moveLayerDown")) /\ NoCanvasObject(lastOp'.id)
         => /\ Ids(textLayers') = Ids(textLayers)
            /\ UNCHANGED <<canvasObjects, history, historyIndex>>]_vars

\* A layer without any canvas object has been moved: the array order changed while
\* the canvas stacking and the history stayed as they were

\* ---- Reset and the remote picture ----

\* C32: whenever the background is the public URL of a blob of the bucket, a
\* resetDesign issues a delete for that blob: a call that reaches its await waits
\* for the delete of that path, and no call resets the state without having done so
ResetDeletesUpload ==
    [][/\ RemotelyStored(backgroundImage, bucket)
       /\ Ran("resetStarted") \/ Ran("resetDesign")
       => IF lastOp'.op = "resetStarted"
          THEN \E r \in resetting' \ resetting : r.path = PathOf(backgroundImage)
          ELSE \E r \in resetting : r.path = PathOf(backgroundImage)]_vars

\* ---------------------------------------------------------------------------
\* The font-size field of the property panel: <Input type="number" min="8"
\* max="200" onChange={e => updateTextLayer(id, {fontSize: parseInt(e.target.value)})}>.
\* The min and max attributes bound the spinner arrows, not what can be typed.
\* ---------------------------------------------------------------------------
Digits == <<"0", "1", "2", "3", "4", "5", "6", "7", "8", "9">>

DigitValue(c) == (CHOOSE d \in DOMAIN Digits : Digits[d] = c) - 1

\* The value parseInt gives when the text holds no leading integer (NaN), kept
\* apart from every integer a typed text of the model can give
NaN == -1000000

RECURSIVE LeadingDigits(_, _)
\* The integer of the longest run of digits at the start of chars, continuing acc
LeadingDigits(chars, acc) ==
    IF chars = <<>> \/ Head(chars) \notin Range(Digits) THEN acc
    ELSE LeadingDigits(Tail(chars), 10 * acc + DigitValue(Head(chars)))

\* parseInt(text): an optional sign, then digits up to the first other character
ParseInt(chars) ==
    LET negative == chars # <<>> /\ Head(chars) = "-"
        rest == IF chars # <<>> /\ Head(chars) \in {"-", "+"} THEN Tail(chars) ELSE chars
    IN IF rest = <<>> \/ Head(rest) \notin Range(Digits) THEN NaN
       ELSE IF negative THEN 0 - LeadingDigits(rest, 0)
       ELSE LeadingDigits(rest, 0)

\* What e.target.value can be: the field cleared, sizes inside and at the ends of
\* the range, sizes outside of it, a fraction, a negative number
FontSizeInputs ==
    {<<>>, <<"8">>, <<"4", "8">>, <<"2", "0", "0">>, <<"5">>, <<"2", "0", "1">>,
     <<"1", "2", ".", "5">>, <<"-", "3">>}

\* onChange of the font-size field
FontSizeChanged(value) == PanelEdit([fontSize |-> ParseInt(value)])

FontSteps == 3      \* handler runs offered

InitFont == \E n \in 1..2 : InitAfter(n)

NextFont ==
    \/ \E value \in FontSizeInputs : Counted(FontSteps, FontSizeChanged(value))
    \/ \E id \in Range(Ids(textLayers)) : Counted(FontSteps, SelectLayer(id))
    \/ Counted(FontSteps, Undo)

SpecFont == InitFont /\ [][NextFont]_vars

\* C33: every layer's fontSize is a number from 8 to 200 in every reachable state
FontSizeInRange ==
    \A i \in 1..Len(textLayers) : textLayers[i].fontSize \in 8..200

\* ---------------------------------------------------------------------------
\* Uploads at the history cap: a design whose history is full or one snapshot
\* short of it, Supabase configured, nothing stored yet; a picture is uploaded
\* while the user goes on adding, undoing and resetting.
\* ---------------------------------------------------------------------------
CapUploadSteps == 4      \* handler runs and completions offered

InitCapUpload ==
    /\ \E n \in (HistoryCap - 1)..HistoryCap : Composed(n)
    /\ uploadState = [isUploading |-> FALSE]
    /\ uploading = {}
    /\ autosaveTimer = {}
    /\ saving = {}
    /\ localStorage = {}
    /\ bucket = [path \in {} |-> NoFile]
    /\ nextPath = 1
    /\ resetting = {}
    /\ loadingFromStorage = {}
    /\ hasLoadedFromStorage = TRUE
    /\ supabaseConfigured = TRUE

NextCapUpload ==
    \/ (disposed /\ Handled(CapUploadSteps, InitializeCanvas))
    \/ (Usable /\ Handled(CapUploadSteps, AddTextLayer))
    \/ (Usable /\ Handled(CapUploadSteps, Undo))
    \/ Stepped(CapUploadSteps, ResetDesignStarts)
    \/ (Usable /\ Stepped(CapUploadSteps, UploadImage("small")))
    \/ \E ok \in BOOLEAN : Stepped(CapUploadSteps, UploadFinishes(ok))
    \/ \E l \in imageLoads : Stepped(CapUploadSteps, ImageLoaded(l))

SpecCapUpload == InitCapUpload /\ [][NextCapUpload]_vars

\* ---- The history cursor ----

\* C34: the history cursor lies between -1 and the last index of the history, and
\* it is -1 exactly when the history is empty
CursorInHistory ==
    /\ historyIndex >= -1
    /\ historyIndex <= Len(history) - 1
    /\ (historyIndex = -1) <=> (history = <<>>)

\* ---- Records made during an upload ----

\* C35: the record of a completed upload extends the history as it is when the
\* upload completes: every snapshot up to the cursor, those recorded while the
\* upload was in flight included, is still there, followed by one new snapshot
UploadExtendsHistory ==
    [][Ran("uploadFinished") /\ Len(history) < HistoryCap
          => /\ Len(history') = historyIndex + 2
             /\ SubSeq(history', 1, historyIndex + 1)
                   = SubSeq(history, 1, historyIndex + 1)
             /\ historyIndex' = historyIndex + 1]_vars

\* ---- Saves in flight ----

\* The stored item is a record with the layers of the editor, in order
StoresCurrentLayers(store) ==
    /\ store # {}
    /\ Parses(store)
    /\ AttributesOf(The(store).textLayers) = AttributesOf(textLayers)

\* C36: saves take effect in state order: a save that finishes never replaces a
\* record holding the current layers, written by a save of the current state, by
\* the layers of an older state; so when no timer and no save is pending after a
\* write, the stored textLayers are the current ones
SavesInStateOrder ==
    [][Ran("saveFinished") /\ StoresCurrentLayers(localStorage)
          => StoresCurrentLayers(localStorage')]_vars

\* ---- Text objects across a background load ----

\* Every layer of the array has exactly one object with its id tag on the stack
OnePerLayer(layers, objs, heap) ==
    \A i \in 1..Len(layers) : Cardinality(Tagged(objs, heap, layers[i].id)) = 1

\* C37: a background load that changes the canvas dimensions removes no text
\* object: once it has settled, on the canvas it was applied to and on the canvas
\* that replaces it, every layer of textLayers has exactly one object with its id
TextObjectsSurviveLoad ==
    [][/\ Ran("imageLoaded") /\ OnePerLayer(textLayers, canvasObjects, fabricObjects)
          => OnePerLayer(textLayers', canvasObjects', fabricObjects')
       /\ Ran("initializeCanvas") /\ lastOp.op = "imageLoaded"
          => OnePerLayer(textLayers', canvasObjects', fabricObjects')]_vars

\* ---- The selected layer ----

\* C38: the selected layer id is null or the id of a layer of textLayers
SelectionInLayers ==
    selectedTextLayer = NoLayer \/ selectedTextLayer \in Range(Ids(textLayers))

\* ---------------------------------------------------------------------------
\* One run of the canvas init effect on its own: the 100 ms timer, the attempts of
\* initializeCanvas with their 200 ms retry timers, the 300 ms "ready" timer.
\* ---------------------------------------------------------------------------
\* What an attempt can throw: the four `throw new Error(...)` of initializeCanvas
InitErrors == {"Canvas ref not available", "Canvas context not available",
               "Fabric canvas creation failed", "Canvas render test failed"}

\* The effect has just run: setTimeout(..., 100) is pending, loadingState.canvas
\* has its initial value
Mounted ==
    [phase |-> "initTimer", initAttempts |-> 0, errors |-> <<>>,
     fabricCanvas |-> FALSE, handlers |-> FALSE, readyTimer |-> FALSE,
     loading |-> TRUE, alerts |-> 0]

\* The body of initializeCanvas for one outcome: the attempt is counted; a canvas
\* that was created is kept in the effect's variable fabricCanvas; a failed one is
\* disposed of, and either a retry timer is set or, on the last attempt, the
\* loading flag is cleared and the alert shown
Attempt(e, outcome) ==
    LET n == e.initAttempts + 1
    IN IF outcome = "ok"
       THEN [e EXCEPT !.initAttempts = n, !.fabricCanvas = TRUE, !.phase = "idle"]
       ELSE IF n < MaxInitAttempts
       THEN [e EXCEPT !.initAttempts = n, !.errors = Append(@, outcome),
                      !.fabricCanvas = FALSE, !.phase = "retry"]
       ELSE [e EXCEPT !.initAttempts = n, !.errors = Append(@, outcome),
                      !.fabricCanvas = FALSE, !.phase = "idle",
                      !.loading = FALSE, !.alerts = @ + 1]

\* The 100 ms timer fires: the callback calls initializeCanvas; with a canvas in
\* hand it attaches the handlers, publishes it with setCanvas and sets the 300 ms
\* timer; without one it returns
InitTimerFires(outcome) ==
    /\ initEffect.phase = "initTimer"
    /\ IF outcome = "ok"
       THEN /\ InitializeCanvas
            /\ initEffect' = [Attempt(initEffect, outcome) EXCEPT
                                 !.handlers = TRUE, !.readyTimer = TRUE]
       ELSE /\ initEffect' = Attempt(initEffect, outcome)
            /\ UNCHANGED <<canvas, canvasVars, canvasLife, designVars, historyVars,
                           selectedTextLayer, now, lastOp, pre>>
    /\ UNCHANGED <<steps, storeVars, img, newSize, request>>

\* A 200 ms retry timer fires: setTimeout(initializeCanvas, 200) calls the function
\* and drops what it returns
InitRetryFires(outcome) ==
    /\ initEffect.phase = "retry"
    /\ initEffect' = Attempt(initEffect, outcome)
    /\ UNCHANGED <<canvas, canvasVars, canvasLife, designVars, historyVars,
                   selectedTextLayer, now, lastOp, pre, steps, storeVars, img, newSize,
                   request>>

\* The 300 ms timer fires: setLoadingState(prev => ({...prev, canvas: false}))
ReadyTimerFires ==
    /\ initEffect.readyTimer
    /\ initEffect' = [initEffect EXCEPT !.readyTimer = FALSE, !.loading = FALSE]
    /\ UNCHANGED <<canvas, canvasVars, canvasLife, designVars, historyVars,
                   selectedTextLayer, now, lastOp, pre, steps, storeVars, img, newSize,
                   request>>

InitMount ==
    /\ Startup
    /\ img = [width |-> DefaultWidth, height |-> DefaultHeight]
    /\ newSize = {}
    /\ request = NoRequest
    /\ initEffect = Mounted

NextMount ==
    \/ \E outcome \in InitErrors \cup {"ok"} : InitTimerFires(outcome)
    \/ \E outcome \in InitErrors \cup {"ok"} : InitRetryFires(outcome)
    \/ ReadyTimerFires

\* Timers that are set fire
SpecMount == InitMount /\ [][NextMount]_vars /\ WF_vars(NextMount)

\* The editor is ready: the canvas handle is published, its handlers are attached
\* and the "initializing canvas" flag is cleared
EditorReady == canvas /\ initEffect.handlers /\ ~initEffect.loading

\* An attempt failed and a later one made a canvas
RetrySucceeded == initEffect.errors # <<>> /\ initEffect.fabricCanvas

\* initializeCanvas runs at most MaxInitAttempts times
AttemptsBounded == initEffect.initAttempts <= MaxInitAttempts

\* The alert is shown once, and only when MaxInitAttempts attempts have failed
AlertAfterLastFailure ==
    /\ initEffect.alerts <= 1
    /\ initEffect.alerts = 1 <=> Len(initEffect.errors) = MaxInitAttempts

\* C39: canvas initialization is attempted at most 5 times, the alert is raised
\* only after the fifth failure, and when a retry succeeds after a failed attempt
\* the editor eventually becomes ready
InitBecomesReady ==
    /\ [](AttemptsBounded /\ AlertAfterLastFailure)
    /\ (RetrySucceeded ~> EditorReady)

\* ---------------------------------------------------------------------------
\* Uploads to their end: a design of one or two layers, with or without Supabase;
\* the user picks files, adds text and resets within a budget, and whatever was
\* started (uploads, picture loads) runs to its end.  Nothing is stored, so a reset
\* has no remote picture to delete.
\* ---------------------------------------------------------------------------
UploadSteps == 2      \* handler runs offered to the user

\* A completion or a timer, which needs no user: followed by the autosave effect of
\* the render it causes
Settles(A) == A /\ AutosaveEffect /\ UNCHANGED <<steps, loaderVars>>

InitUpload ==
    /\ \E n \in 1..2 : Composed(n)
    /\ uploadState = [isUploading |-> FALSE]
    /\ uploading = {}
    /\ autosaveTimer = {}
    /\ saving = {}
    /\ localStorage = {}
    /\ bucket = [path \in {} |-> NoFile]
    /\ nextPath = 1
    /\ resetting = {}
    /\ loadingFromStorage = {}
    /\ hasLoadedFromStorage = TRUE
    /\ supabaseConfigured \in BOOLEAN

\* uploadImageToSupabase of a handleImageUpload settles
UploadSettles == \E ok \in BOOLEAN : Settles(UploadFinishes(ok))

NextUpload ==
    \/ \E picture \in Pictures : Usable /\ Stepped(UploadSteps, UploadImage(picture))
    \/ Stepped(UploadSteps, ReadFails)
    \/ (Usable /\ Handled(UploadSteps, AddTextLayer))
    \/ Stepped(UploadSteps, ResetDesignStarts)
    \/ (disposed /\ Handled(UploadSteps, InitializeCanvas))
    \/ UploadSettles
    \/ \E l \in imageLoads : Settles(ImageLoaded(l))
    \/ \E l \in imageLoads : Settles(ImageLoadFails(l))

\* The promise of uploadImageToSupabase settles: it resolves or it rejects
SpecUpload == InitUpload /\ [][NextUpload]_vars /\ WF_vars(UploadSettles)

\* C40: every upload that sets isUploading to true sets it back to false, so the
\* autosave effect is not disabled forever
UploadingEnds == uploadState.isUploading ~> ~uploadState.isUploading

\* An upload whose remote part failed has ended with isUploading false
FailedUploadEnded ==
    /\ lastOp.op = "uploadFinished"
    /\ lastOp.alerts = 1
    /\ lastOp.prev = "uploadImage"
    /\ supabaseConfigured
    /\ ~uploadState.isUploading
    /\ uploading = {}

====
